---- MODULE Spec2Model ----
(***************************************************************************)
(* Model of the data normalization and aggregation code of the Spotify     *)
(* playlist extractor (src/data_processor.py, with the producers of raw    *)
(* track records in src/spotify_extractor.py and src/web_scraper.py).      *)
(*                                                                         *)
(* Python values are tagged pairs <<tag, payload>>; text is a sequence of  *)
(* one-character strings, so that formatting, joining and parsing are      *)
(* computed character by character.  A dict is a function whose DOMAIN is  *)
(* the set of keys it holds: an absent key is a key outside the DOMAIN.    *)
(***************************************************************************)
EXTENDS Integers, Sequences, FiniteSets, TLC

\* ------------------------------------------------------------------ bounds
\* Number of keys of a template raw track that are varied independently.
MaxOverride == 1
\* Longest raw track sequence handed to process_tracks.
MaxTracks == 3
\* Longest track sequence handed to the aggregate calculator.
MaxSummaryTracks == 2
\* Longest track sequence handed to an exporter.
MaxExportTracks == 2

\* ------------------------------------------------------------ Python values
Null == <<"null", <<>>>>
Str(s) == <<"str", s>>
IntV(n) == <<"int", n>>
FloatV(m) == <<"float", m>>
BoolV(b) == <<"bool", b>>
ListV(l) == <<"list", l>>

Tag(v) == v[1]
Payload(v) == v[2]

\* Python truthiness (bool(v)).
Truthy(v) ==
  CASE Tag(v) = "null" -> FALSE
    [] Tag(v) = "str" -> Len(Payload(v)) > 0
    [] Tag(v) = "list" -> Len(Payload(v)) > 0
    [] Tag(v) = "int" -> Payload(v) # 0
    [] Tag(v) = "float" -> Payload(v) # 0
    [] Tag(v) = "bool" -> Payload(v)

\* A get that drops its default: track.get(key).
GetNoDefault(d, k, default) == IF k \in DOMAIN d THEN d[k] ELSE Null

\* dict.get(key, default): the default is used only when the key is absent.
Get(d, k, default) == IF k \in DOMAIN d THEN d[k] ELSE default

\* dict.get(key): None when the key is absent.
Get1(d, k) == Get(d, k, Null)

\* ------------------------------------------------------------------- text
DigitChars == <<"0", "1", "2", "3", "4", "5", "6", "7", "8", "9">>

IsDigit(c) == \E i \in 1..10 : DigitChars[i] = c

DigitVal(c) == (CHOOSE i \in 1..10 : DigitChars[i] = c) - 1

\* str(n) / f"{n}" of a non-negative integer.
RECURSIVE IntToText(_)
IntToText(n) ==
  IF n < 10 THEN <<DigitChars[n + 1]>>
  ELSE IntToText(n \div 10) \o <<DigitChars[(n % 10) + 1]>>

\* f"{n:02d}" / strftime's zero padded field of width w.
RECURSIVE PadLeft(_, _)
PadLeft(s, w) == IF Len(s) >= w THEN s ELSE PadLeft(<<"0">> \o s, w)

\* int(text) of a digit sequence.
RECURSIVE TextToInt(_)
TextToInt(s) ==
  IF Len(s) = 0 THEN 0
  ELSE 10 * TextToInt(SubSeq(s, 1, Len(s) - 1)) + DigitVal(s[Len(s)])

AllDigits(s) == Len(s) > 0 /\ \A i \in 1..Len(s) : IsDigit(s[i])

Contains(s, c) == \E i \in 1..Len(s) : s[i] = c

\* text literals used by the code
TxtUnknown == <<"U", "n", "k", "n", "o", "w", "n">>
TxtUnknownArtist == TxtUnknown \o <<" ", "A", "r", "t", "i", "s", "t">>
TxtUnknownAlbum == TxtUnknown \o <<" ", "A", "l", "b", "u", "m">>
TxtZeroDuration == <<"0", ":", "0", "0">>
TxtNA == <<"N", "/", "A">>
TxtCommaSpace == <<",", " ">>

\* ----------------------------------------------------- str.join (line 38)
\* ', '.join(x) iterates x: the elements of a list, the characters of a str.
Iterable(v) == Tag(v) \in {"list", "str"}

Items(v) ==
  IF Tag(v) = "list" THEN Payload(v)
  ELSE [i \in 1..Len(Payload(v)) |-> Str(<<Payload(v)[i]>>)]

\* join raises TypeError on a non-iterable and on an item that is not a str.
JoinRaises(v) ==
  \/ ~Iterable(v)
  \/ \E i \in 1..Len(Items(v)) : Tag(Items(v)[i]) # "str"

RECURSIVE JoinText(_, _)
JoinText(sep, items) ==
  IF Len(items) = 0 THEN <<>>
  ELSE IF Len(items) = 1 THEN Payload(items[1])
  ELSE Payload(items[1]) \o sep \o JoinText(sep, Tail(items))

\* ------------------------------------------------------ calendar (datetime)
IsLeap(y) == (y % 4 = 0 /\ y % 100 # 0) \/ y % 400 = 0

DaysInMonth(y, m) ==
  IF m = 2 THEN (IF IsLeap(y) THEN 29 ELSE 28)
  ELSE IF m \in {4, 6, 9, 11} THEN 30 ELSE 31

\* datetime(y, m, d) raises ValueError outside these ranges.
ValidYMD(y, m, d) ==
  /\ y >= 1 /\ y <= 9999
  /\ m >= 1 /\ m <= 12
  /\ d >= 1 /\ d <= DaysInMonth(y, m)

NoDate == [ok |-> FALSE, y |-> 0, m |-> 0, d |-> 0]

\* dt.strftime('%Y-%m-%d')
Strftime(dt) ==
  PadLeft(IntToText(dt.y), 4) \o <<"-">> \o PadLeft(IntToText(dt.m), 2)
    \o <<"-">> \o PadLeft(IntToText(dt.d), 2)

\* str.split(sep) on one separator character.
RECURSIVE Split(_, _)
Split(s, sep) ==
  IF ~Contains(s, sep) THEN <<s>>
  ELSE LET i == CHOOSE k \in 1..Len(s) :
                  s[k] = sep /\ \A j \in 1..(k - 1) : s[j] # sep
       IN <<SubSeq(s, 1, i - 1)>> \o Split(SubSeq(s, i + 1, Len(s)), sep)

\* strptime directives: %Y is four digits; %m is 1[0-2]|0[1-9]|[1-9];
\* %d is 3[01]|[12]\d|0[1-9]|[1-9]| [1-9].
YearField(p) == Len(p) = 4 /\ AllDigits(p)

MonthField(p) ==
  Len(p) \in {1, 2} /\ AllDigits(p) /\ TextToInt(p) \in 1..12

DayField(p) ==
  \/ Len(p) \in {1, 2} /\ AllDigits(p) /\ TextToInt(p) \in 1..31
  \/ Len(p) = 2 /\ p[1] = " " /\ IsDigit(p[2]) /\ p[2] # "0"

DayValue(p) == IF p[1] = " " THEN DigitVal(p[2]) ELSE TextToInt(p)

\* datetime.strptime(s, fmt) for a format of three fields around one separator:
\* yi, mi, di are the positions of year, month and day among the fields.
\* ok = FALSE stands for the ValueError.
Strptime(s, sep, yi, mi, di) ==
  LET parts == Split(s, sep) IN
  IF /\ Len(parts) = 3
     /\ YearField(parts[yi]) /\ MonthField(parts[mi]) /\ DayField(parts[di])
     /\ ValidYMD(TextToInt(parts[yi]), TextToInt(parts[mi]), DayValue(parts[di]))
  THEN [ok |-> TRUE, y |-> TextToInt(parts[yi]), m |-> TextToInt(parts[mi]),
        d |-> DayValue(parts[di])]
  ELSE NoDate

\* date_string.replace('Z', '+00:00'): every Z is replaced.
RECURSIVE ReplaceZ(_)
ReplaceZ(s) ==
  IF Len(s) = 0 THEN <<>>
  ELSE (IF s[1] = "Z" THEN <<"+", "0", "0", ":", "0", "0">> ELSE <<s[1]>>)
         \o ReplaceZ(Tail(s))

TwoDigitsBelow(p, limit) == Len(p) = 2 /\ AllDigits(p) /\ TextToInt(p) < limit

\* HH[:MM[:SS]] of an ISO time.
IsoClock(t) ==
  \/ Len(t) = 2 /\ TwoDigitsBelow(t, 24)
  \/ Len(t) = 5 /\ TwoDigitsBelow(SubSeq(t, 1, 2), 24) /\ t[3] = ":"
       /\ TwoDigitsBelow(SubSeq(t, 4, 5), 60)
  \/ Len(t) = 8 /\ TwoDigitsBelow(SubSeq(t, 1, 2), 24) /\ t[3] = ":"
       /\ TwoDigitsBelow(SubSeq(t, 4, 5), 60) /\ t[6] = ":"
       /\ TwoDigitsBelow(SubSeq(t, 7, 8), 60)

\* +HH:MM or -HH:MM
IsoOffset(t) ==
  /\ Len(t) = 6 /\ t[1] \in {"+", "-"}
  /\ TwoDigitsBelow(SubSeq(t, 2, 3), 24) /\ t[4] = ":"
  /\ TwoDigitsBelow(SubSeq(t, 5, 6), 60)

IsoTime(t) ==
  \E n \in {2, 5, 8} :
    /\ Len(t) >= n
    /\ IsoClock(SubSeq(t, 1, n))
    /\ (Len(t) = n \/ IsoOffset(SubSeq(t, n + 1, Len(t))))

\* datetime.fromisoformat(s): YYYY-MM-DD, then optionally one separator
\* character and a time with an optional UTC offset.  ok = FALSE stands for
\* the ValueError.
FromIsoFormat(s) ==
  IF /\ Len(s) >= 10
     /\ AllDigits(SubSeq(s, 1, 4)) /\ s[5] = "-"
     /\ AllDigits(SubSeq(s, 6, 7)) /\ s[8] = "-"
     /\ AllDigits(SubSeq(s, 9, 10))
     /\ ValidYMD(TextToInt(SubSeq(s, 1, 4)), TextToInt(SubSeq(s, 6, 7)),
                 TextToInt(SubSeq(s, 9, 10)))
     /\ (Len(s) = 10 \/ (Len(s) > 11 /\ IsoTime(SubSeq(s, 12, Len(s)))))
  THEN [ok |-> TRUE, y |-> TextToInt(SubSeq(s, 1, 4)),
        m |-> TextToInt(SubSeq(s, 6, 7)), d |-> TextToInt(SubSeq(s, 9, 10))]
  ELSE NoDate

\* ------------------------------------------- DataProcessor._format_date
\* The try body with the formats in the order %Y-%m-%d, %d/%m/%Y, %m/%d/%Y.
FormatDateTryDayFirst(v) ==
  IF Tag(v) # "str" THEN [raised |-> TRUE, value |-> v]
  ELSE LET s == Payload(v) IN
    IF Contains(s, "T")
    THEN LET dt == FromIsoFormat(ReplaceZ(s)) IN
         IF dt.ok THEN [raised |-> FALSE, value |-> Str(Strftime(dt))]
         ELSE [raised |-> TRUE, value |-> v]
    ELSE LET a == Strptime(s, "-", 1, 2, 3)
             b == Strptime(s, "/", 3, 2, 1)
             c == Strptime(s, "/", 3, 1, 2) IN
         IF a.ok THEN [raised |-> FALSE, value |-> Str(Strftime(a))]
         ELSE IF b.ok THEN [raised |-> FALSE, value |-> Str(Strftime(b))]
         ELSE IF c.ok THEN [raised |-> FALSE, value |-> Str(Strftime(c))]
         ELSE [raised |-> FALSE, value |-> v]

\* The body of the outer try (lines 69-82): raised = TRUE when an exception
\* leaves it.  A value that is not a str raises TypeError or AttributeError
\* there ('T' in 5, strptime of a list, list.replace).
FormatDateTry(v) ==
  IF Tag(v) # "str" THEN [raised |-> TRUE, value |-> v]
  ELSE LET s == Payload(v) IN
    IF Contains(s, "T")
    THEN LET dt == FromIsoFormat(ReplaceZ(s)) IN
         IF dt.ok THEN [raised |-> FALSE, value |-> Str(Strftime(dt))]
         ELSE [raised |-> TRUE, value |-> v]
    ELSE LET a == Strptime(s, "-", 1, 2, 3)
             b == Strptime(s, "/", 3, 1, 2)
             c == Strptime(s, "/", 3, 2, 1) IN
         IF a.ok THEN [raised |-> FALSE, value |-> Str(Strftime(a))]
         ELSE IF b.ok THEN [raised |-> FALSE, value |-> Str(Strftime(b))]
         ELSE IF c.ok THEN [raised |-> FALSE, value |-> Str(Strftime(c))]
         ELSE [raised |-> FALSE, value |-> v]

\* _format_date(date_string): raised = TRUE when the call raises.
_format_date(v) ==
  IF ~Truthy(v) THEN [raised |-> FALSE, value |-> Str(TxtUnknown)]
  ELSE LET r == FormatDateTry(v) IN
       IF r.raised THEN [raised |-> FALSE, value |-> v] ELSE r

\* ------------------------------------- SpotifyExtractor._format_duration
\* Milliseconds to "m:ss"; duration_ms is a Python value.
_format_duration(duration_ms) ==
  IF ~Truthy(duration_ms) THEN TxtZeroDuration
  ELSE LET seconds == Payload(duration_ms) \div 1000
           minutes == seconds \div 60 IN
       IntToText(minutes) \o <<":">> \o PadLeft(IntToText(seconds % 60), 2)

\* ------------------------------------ DataProcessor._standardize_track
AudioFeatures ==
  {"danceability", "energy", "valence", "tempo", "acousticness",
   "instrumentalness", "liveness", "speechiness", "loudness", "key", "mode",
   "time_signature"}

PlainFields ==
  {"track_name", "artists", "album_name", "duration", "duration_ms",
   "date_added", "release_year", "popularity", "explicit", "streams",
   "track_number"}

\* The 23 keys of the dict literal of lines 36-61.
CanonFields == PlainFields \cup AudioFeatures

\* The raw key each canonical field is read from.
RawKeyOf(f) ==
  CASE f = "track_name" -> "name"
    [] f = "duration" -> "duration_formatted"
    [] f = "date_added" -> "added_at"
    [] OTHER -> f

\* The default handed to track.get for each canonical field.
DefaultArg(f) ==
  CASE f = "track_name" -> Str(TxtUnknown)
    [] f = "artists" -> ListV(<<Str(TxtUnknownArtist)>>)
    [] f = "album_name" -> Str(TxtUnknownAlbum)
    [] f = "duration" -> Str(TxtZeroDuration)
    [] f = "duration_ms" -> IntV(0)
    [] f = "date_added" -> Str(<<>>)
    [] f = "release_year" -> Str(TxtUnknown)
    [] f = "popularity" -> IntV(0)
    [] f = "explicit" -> BoolV(FALSE)
    [] f = "track_number" -> IntV(0)
    [] OTHER -> Str(TxtNA)

\* One entry of the dict literal, given that its expression does not raise.
StandardizeField(track, f) ==
  LET got == Get(track, RawKeyOf(f), DefaultArg(f)) IN
  CASE f = "artists" -> Str(JoinText(TxtCommaSpace, Items(got)))
    [] f = "date_added" -> _format_date(got).value
    [] OTHER -> got

\* _standardize_track(track): raised = TRUE when building the dict raises
\* (the join of line 38, or _format_date of line 42 should it raise).
_standardize_track(track) ==
  IF \/ JoinRaises(Get(track, "artists", DefaultArg("artists")))
     \/ _format_date(Get(track, "added_at", DefaultArg("date_added"))).raised
  THEN [raised |-> TRUE, value |-> <<>>]
  ELSE [raised |-> FALSE,
        value |-> [f \in CanonFields |-> StandardizeField(track, f)]]

\* --------------------------------- DataProcessor._format_audio_feature
\* round(x, 3) of a float held in millionths: the nearest multiple of one
\* thousandth.  A decimal tie is decided in Python by the float's binary
\* value; it goes to the even side here, and the inputs drawn hold no tie.
Round3(m) ==
  LET q == m \div 1000
      r == m % 1000 IN
  IF r < 500 THEN q * 1000
  ELSE IF r > 500 THEN (q + 1) * 1000
  ELSE IF q % 2 = 0 THEN q * 1000 ELSE (q + 1) * 1000

\* value is None, a str, an int, a bool or a float (str(value) of a str is
\* the str itself; round of an int or a bool is the int).
_format_audio_feature(value) ==
  IF value = Null \/ value = Str(TxtNA) THEN Str(TxtNA)
  ELSE CASE Tag(value) = "float" -> FloatV(Round3(Payload(value)))
         [] Tag(value) = "int" -> value
         [] Tag(value) = "bool" -> IntV(IF Payload(value) THEN 1 ELSE 0)
         [] OTHER -> value

\* ------------------------------------------------------- raw track records
\* Keys _standardize_track reads from a raw record.
RawKeys == {RawKeyOf(f) : f \in CanonFields}

TxtA == <<"A">>
TxtB == <<"B">>
TxtIsoDate == <<"2", "0", "2", "3", "-", "0", "5", "-", "1", "2", "T",
                "1", "0", ":", "0", "0", ":", "0", "0", "Z">>
TxtSlashDate == <<"0", "5", "/", "1", "2", "/", "2", "0", "2", "3">>
TxtYmdDate == <<"2", "0", "2", "3", "-", "0", "5", "-", "1", "2">>

\* A marker used only while enumerating inputs: the key is left out.
Absent == <<"absent", <<>>>>

\* Real (non-null) values a producer can put under each raw key.
RealValues(k) ==
  CASE k = "name" -> {Str(TxtA)}
    [] k = "artists" -> {ListV(<<Str(<<"X">>)>>),
                         ListV(<<Str(<<"Y">>), Str(<<"Z">>)>>)}
    [] k = "album_name" -> {Str(<<"A", "l", "b">>)}
    [] k = "duration_formatted" -> {Str(<<"3", ":", "2", "0">>)}
    [] k = "duration_ms" -> {IntV(200000), IntV(100000)}
    [] k = "added_at" -> {Str(TxtIsoDate), Str(TxtSlashDate)}
    [] k = "release_year" -> {IntV(2020)}
    [] k = "popularity" -> {IntV(50), IntV(0)}
    [] k = "explicit" -> {BoolV(TRUE)}
    [] k = "streams" -> {Str(<<"5", "M">>)}
    [] k = "track_number" -> {IntV(7)}
    [] k \in {"key", "mode", "time_signature"} -> {IntV(4)}
    [] k = "loudness" -> {FloatV(0 - 5123456)}
    [] OTHER -> {FloatV(123456), Str(TxtNA)}

\* Each key is absent, present with None, or present with a real value.
Options(k) == {Absent, Null} \cup RealValues(k)

\* The record t with key k set to option o.
SetKey(t, k, o) ==
  IF o = Absent THEN [j \in DOMAIN t \ {k} |-> t[j]]
  ELSE [j \in DOMAIN t \cup {k} |-> IF j = k THEN o ELSE t[j]]

EmptyTrack == [k \in {} |-> Null]

AllNullTrack == [k \in RawKeys |-> Null]

\* A record as SpotifyExtractor._extract_track_info builds it (the keys the
\* normalizer reads): duration_formatted is _format_duration(duration_ms),
\* release_year is _extract_year's int.
ApiTrack ==
  [k \in RawKeys \ {"streams"} |->
     CASE k = "duration_ms" -> IntV(200000)
       [] k = "duration_formatted" -> Str(_format_duration(IntV(200000)))
       [] k \in {"danceability", "energy", "valence", "tempo", "acousticness",
                 "instrumentalness", "liveness", "speechiness"} -> FloatV(123456)
       [] OTHER -> CHOOSE v \in RealValues(k) : TRUE]

\* A record as WebScraper._extract_single_track builds it.
ScrapedTrack ==
  [k \in {"track_number", "name", "artists", "album_name",
          "duration_formatted", "duration_ms", "added_at", "release_year",
          "popularity", "explicit", "streams"} |->
     CASE k = "track_number" -> IntV(1)
       [] k = "name" -> Str(TxtB)
       [] k = "artists" -> ListV(<<Str(TxtUnknownArtist)>>)
       [] k = "album_name" -> Str(TxtUnknownAlbum)
       [] k = "duration_formatted" -> Str(<<"3", ":", "2", "0">>)
       [] k = "duration_ms" -> IntV(200000)
       [] k = "added_at" -> Str(TxtSlashDate)
       [] k = "popularity" -> IntV(0)
       [] k = "explicit" -> BoolV(FALSE)
       [] OTHER -> Null]

\* The two raw tracks of the specification's end-to-end scenario.
RoadTripA ==
  [k \in {"name", "artists", "album_name", "duration_ms", "popularity"} |->
     CASE k = "name" -> Str(TxtA)
       [] k = "artists" -> ListV(<<Str(<<"X">>)>>)
       [] k = "album_name" -> Str(<<"A", "l", "b">>)
       [] k = "duration_ms" -> IntV(200000)
       [] OTHER -> IntV(50)]

RoadTripB ==
  [k \in {"name", "artists", "album_name", "duration_ms", "popularity",
          "explicit"} |->
     CASE k = "name" -> Str(TxtB)
       [] k = "artists" -> ListV(<<Str(<<"Y">>), Str(<<"Z">>)>>)
       [] k = "album_name" -> Str(<<"A", "l", "b", "2">>)
       [] k = "duration_ms" -> IntV(100000)
       [] k = "popularity" -> IntV(80)
       [] OTHER -> BoolV(TRUE)]

Templates ==
  {EmptyTrack, AllNullTrack, ApiTrack, ScrapedTrack, RoadTripA, RoadTripB}

\* The templates with up to n keys set independently to any of their options.
RECURSIVE RawTracksUpTo(_)
RawTracksUpTo(n) ==
  IF n = 0 THEN Templates
  ELSE LET prev == RawTracksUpTo(n - 1) IN
       prev \cup UNION {UNION {{SetKey(t, k, o) : o \in Options(k)} :
                               k \in RawKeys} : t \in prev}

RawTracks == RawTracksUpTo(MaxOverride)

\* --------------------------------- DataProcessor.calculate_total_duration
\* Values sum() adds as integers (a bool is an int; floats are not drawn).
IsInt(v) == Tag(v) \in {"int", "bool"}

IntOf(v) == IF Tag(v) = "bool" THEN (IF Payload(v) THEN 1 ELSE 0) ELSE Payload(v)

\* sum(track.get(key, 0) for track in tracks_data)
RECURSIVE SumKey(_, _)
SumKey(tracks, key) ==
  IF Len(tracks) = 0 THEN 0
  ELSE IntOf(Get(Head(tracks), key, IntV(0))) + SumKey(Tail(tracks), key)

\* The sum raises TypeError when a value under key is None or text.
SumRaises(tracks, key) ==
  \E i \in 1..Len(tracks) : ~IsInt(Get(tracks[i], key, IntV(0)))

\* Lines 189-198 with minutes = total_seconds // 60.
DurationTextNoMod(total_seconds) ==
  LET hours == total_seconds \div 3600
      minutes == total_seconds \div 60
      seconds == total_seconds % 60 IN
  IF hours > 0
  THEN IntToText(hours) \o <<"h", " ">> \o IntToText(minutes) \o <<"m", " ">>
         \o IntToText(seconds) \o <<"s">>
  ELSE IF minutes > 0
  THEN IntToText(minutes) \o <<"m", " ">> \o IntToText(seconds) \o <<"s">>
  ELSE IntToText(seconds) \o <<"s">>

\* Lines 189-198: hours, minutes, seconds and the first matching format.
DurationText(total_seconds) ==
  LET hours == total_seconds \div 3600
      minutes == (total_seconds % 3600) \div 60
      seconds == total_seconds % 60 IN
  IF hours > 0
  THEN IntToText(hours) \o <<"h", " ">> \o IntToText(minutes) \o <<"m", " ">>
         \o IntToText(seconds) \o <<"s">>
  ELSE IF minutes > 0
  THEN IntToText(minutes) \o <<"m", " ">> \o IntToText(seconds) \o <<"s">>
  ELSE IntToText(seconds) \o <<"s">>

calculate_total_duration(tracks_data) ==
  IF SumRaises(tracks_data, "duration_ms")
  THEN [raised |-> TRUE, value |-> <<>>]
  ELSE [raised |-> FALSE,
        value |-> DurationText(SumKey(tracks_data, "duration_ms") \div 1000)]

\* ------------------------------------------ DataProcessor.get_data_summary
\* n / d: raised = TRUE stands for ZeroDivisionError; the quotient is kept
\* as the fraction num/den.
Divide(n, d) ==
  IF d = 0 THEN [raised |-> TRUE, num |-> 0, den |-> 1]
  ELSE [raised |-> FALSE, num |-> n, den |-> d]

\* Line 217 without the "if tracks_data else 0".
AvgPopularityUnguarded(tracks_data) ==
  IF SumRaises(tracks_data, "popularity")
  THEN [raised |-> TRUE, num |-> 0, den |-> 1]
  ELSE Divide(SumKey(tracks_data, "popularity"), Len(tracks_data))

\* Line 217: sum(...) / len(tracks_data) if tracks_data else 0
AvgPopularity(tracks_data) ==
  IF Len(tracks_data) > 0
  THEN (IF SumRaises(tracks_data, "popularity")
        THEN [raised |-> TRUE, num |-> 0, den |-> 1]
        ELSE Divide(SumKey(tracks_data, "popularity"), Len(tracks_data)))
  ELSE [raised |-> FALSE, num |-> 0, den |-> 1]

\* sum(1 for track in tracks_data if cond(track))
CountIf(tracks, cond(_)) ==
  Cardinality({i \in 1..Len(tracks) : cond(tracks[i])})

ExplicitCond(t) == Truthy(Get(t, "explicit", BoolV(FALSE)))

ReleaseYearCond(t) == Truthy(Get1(t, "release_year"))

AudioCond(t) == Get1(t, "danceability") # Null

NoSummary ==
  [playlist_name |-> Null, total_tracks_extracted |-> 0,
   total_duration |-> <<>>, avg_popularity |-> [num |-> 0, den |-> 1],
   explicit_tracks |-> 0, tracks_with_release_year |-> 0,
   tracks_with_audio_features |-> 0]

get_data_summary(playlist, tracks_data) ==
  LET dur == calculate_total_duration(tracks_data)
      avg == AvgPopularity(tracks_data) IN
  IF dur.raised \/ avg.raised THEN [raised |-> TRUE, value |-> NoSummary]
  ELSE [raised |-> FALSE,
        value |->
          [playlist_name |-> Get(playlist, "name", Str(TxtUnknown)),
           total_tracks_extracted |-> Len(tracks_data),
           total_duration |-> dur.value,
           avg_popularity |-> [num |-> avg.num, den |-> avg.den],
           explicit_tracks |-> CountIf(tracks_data, ExplicitCond),
           tracks_with_release_year |-> CountIf(tracks_data, ReleaseYearCond),
           tracks_with_audio_features |-> CountIf(tracks_data, AudioCond)]]

\* ------------------------------------------------------ date inputs
\* A date string is built from a year and two numeric fields, each written
\* with a width of one or two digits.
DateNumbers == {0, 1, 2, 5, 12, 13, 29, 30, 31, 32}

DateFieldInputs ==
  {p \in [n : DateNumbers, w : {1, 2}] : p.w = 1 => p.n < 10}

DateYears == {2023, 2024}

FieldText(p) == PadLeft(IntToText(p.n), p.w)

\* The time part put after the "T" of an ISO input; valid says whether it
\* is a time of day (with an optional Z or offset).
Clocks ==
  {[text |-> <<"1", "0", ":", "0", "0", ":", "0", "0", "Z">>, valid |-> TRUE],
   [text |-> <<"1", "0", ":", "0", "0", ":", "0", "0">>, valid |-> TRUE],
   [text |-> <<"2", "3", ":", "5", "9", ":", "5", "9", "+", "0", "2", ":",
               "0", "0">>, valid |-> TRUE],
   [text |-> <<"2", "5", ":", "0", "0", ":", "0", "0", "Z">>, valid |-> FALSE],
   [text |-> <<"n", "o", "o", "n">>, valid |-> FALSE]}

NoClock == [text |-> <<>>, valid |-> FALSE]

NoField == [n |-> 0, w |-> 1]

TxtNotADate == <<"n", "o", "t", "-", "a", "-", "d", "a", "t", "e">>

\* Inputs no rule parses, and inputs that are not text.
OtherDateInputs ==
  {Str(TxtNotADate),
   Str(<<"T", "u", "e", "s", "d", "a", "y">>),
   Str(<<"2", "0", "2", "3">>),
   Str(<<"1", "2", "/", "2", "0", "2", "3">>),
   Str(<<"2", "0", "2", "3", "-", "0", "5", "-", "1", "2", "T">>),
   Str(<<"0", "5", "/", "1", "2", "/", "2", "3">>),
   Str(<<>>), Null, IntV(0), IntV(20230512), ListV(<<>>),
   ListV(<<Str(<<"T">>)>>)}

\* How an input is put together: kind "ymd" is y-a-b, "slash" is a/b/y,
\* "iso" is y-a-bTclock, "other" is the value other.
DateInputs ==
  [kind : {"ymd", "slash"}, y : DateYears, a : DateFieldInputs,
   b : DateFieldInputs, clock : {NoClock}, other : {Null}]
  \cup [kind : {"iso"}, y : DateYears, a : DateFieldInputs,
        b : DateFieldInputs, clock : Clocks, other : {Null}]
  \cup [kind : {"other"}, y : {2023}, a : {NoField}, b : {NoField},
        clock : {NoClock}, other : OtherDateInputs]

DateStringOf(in) ==
  CASE in.kind = "ymd" ->
         Str(IntToText(in.y) \o <<"-">> \o FieldText(in.a) \o <<"-">>
               \o FieldText(in.b))
    [] in.kind = "slash" ->
         Str(FieldText(in.a) \o <<"/">> \o FieldText(in.b) \o <<"/">>
               \o IntToText(in.y))
    [] in.kind = "iso" ->
         Str(IntToText(in.y) \o <<"-">> \o FieldText(in.a) \o <<"-">>
               \o FieldText(in.b) \o <<"T">> \o in.clock.text)
    [] OTHER -> in.other

\* ------------------------------------------- inputs of process_tracks
\* Raw records, two of which make _standardize_track raise (artists is
\* None; the artists list holds a None).
ProcTracks ==
  {RoadTripA, RoadTripB, ScrapedTrack, EmptyTrack,
   SetKey(ApiTrack, "artists", Null),
   SetKey(RoadTripA, "artists", ListV(<<Str(<<"X">>), Null>>))}

SeqsUpTo(S, n) == UNION {[1..k -> S] : k \in 0..n}

\* ---------------------------------------- inputs of the aggregate calculator
DurationOnly(ms, pop) ==
  [k \in {"duration_ms", "popularity"} |->
     IF k = "duration_ms" THEN IntV(ms) ELSE IntV(pop)]

\* Canonical records as _standardize_track returns them, records that lack
\* keys, and records with a duration at each edge of the format.
SummaryTracks ==
  {_standardize_track(t).value :
     t \in {EmptyTrack, RoadTripA, RoadTripB, ApiTrack, ScrapedTrack,
            SetKey(ApiTrack, "popularity", Null),
            SetKey(ApiTrack, "duration_ms", Null)}}
  \cup {EmptyTrack, DurationOnly(999, 1), DurationOnly(59999, 100),
        DurationOnly(65000, 33), DurationOnly(3600000, 7),
        DurationOnly(3665000, 0)}

RoadTripPlaylist ==
  [k \in {"name", "followers", "total_tracks"} |->
     CASE k = "name" -> Str(<<"R", "o", "a", "d", " ", "T", "r", "i", "p">>)
       [] k = "followers" -> IntV(120)
       [] OTHER -> IntV(2)]

Playlists == {EmptyTrack, RoadTripPlaylist}

\* ================================================== the exporters
\* A JSON object handed to an exporter; anything else (None here) has no get.
DictV(d) == <<"dict", d>>

\* ------------------------------------------------- str(v) and f"{v}"
RECURSIVE TrimZeros(_)
TrimZeros(s) ==
  IF Len(s) > 1 /\ s[Len(s)] = "0" THEN TrimZeros(SubSeq(s, 1, Len(s) - 1))
  ELSE s

\* repr of a non-negative float held in millionths: "0.5", "120.0", "0.123".
FloatText(m) ==
  IntToText(m \div 1000000) \o <<".">>
    \o TrimZeros(PadLeft(IntToText(m % 1000000), 6))

TxtNone == <<"N", "o", "n", "e">>

TxtTrue == <<"T", "r", "u", "e">>

TxtFalse == <<"F", "a", "l", "s", "e">>

PyStr(v) ==
  CASE Tag(v) = "str" -> Payload(v)
    [] Tag(v) = "int" -> IntToText(Payload(v))
    [] Tag(v) = "float" -> FloatText(Payload(v))
    [] Tag(v) = "bool" -> (IF Payload(v) THEN TxtTrue ELSE TxtFalse)
    [] Tag(v) = "null" -> TxtNone

\* ------------------------------------ csv.writer(output).writerow(row)
\* The default dialect quotes a field that holds the delimiter, the quote
\* character or a character of the line terminator, doubling each quote.
NeedsQuote(s) == \E i \in 1..Len(s) : s[i] \in {",", "\"", "\r", "\n"}

RECURSIVE DoubleQuotes(_)
DoubleQuotes(s) ==
  IF Len(s) = 0 THEN <<>>
  ELSE (IF Head(s) = "\"" THEN <<"\"", "\"">> ELSE <<Head(s)>>)
         \o DoubleQuotes(Tail(s))

\* None is written as the empty field, every other value as str(value).
CsvField(v) ==
  LET s == IF v = Null THEN <<>> ELSE PyStr(v) IN
  IF NeedsQuote(s) THEN <<"\"">> \o DoubleQuotes(s) \o <<"\"">> ELSE s

writerow(row) ==
  JoinText(<<",">>, [i \in 1..Len(row) |-> Str(CsvField(row[i]))])
    \o <<"\r", "\n">>

\* --------------------------------- DataProcessor.create_csv: the pieces
TxtPlaylistMetadata ==
  <<"P", "L", "A", "Y", "L", "I", "S", "T", " ", "M", "E", "T", "A", "D",
    "A", "T", "A">>

TxtTracksData == <<"T", "R", "A", "C", "K", "S", " ", "D", "A", "T", "A">>

TxtUnknownPlaylist ==
  <<"U", "n", "k", "n", "o", "w", "n", " ", "P", "l", "a", "y", "l", "i",
    "s", "t">>

TxtYes == <<"Y", "e", "s">>

TxtNo == <<"N", "o">>

MetadataKeys ==
  <<<<"N", "a", "m", "e">>,
    <<"D", "e", "s", "c", "r", "i", "p", "t", "i", "o", "n">>,
    <<"T", "o", "t", "a", "l", " ", "S", "a", "v", "e", "s", "/", "F", "o",
      "l", "l", "o", "w", "e", "r", "s">>,
    <<"N", "u", "m", "b", "e", "r", " ", "o", "f", " ", "S", "o", "n", "g",
      "s">>,
    <<"T", "o", "t", "a", "l", " ", "D", "u", "r", "a", "t", "i", "o", "n">>,
    <<"U", "R", "L">>,
    <<"E", "x", "t", "r", "a", "c", "t", "e", "d", " ", "o", "n">>>>

Headers ==
  <<<<"T", "r", "a", "c", "k", " ", "N", "u", "m", "b", "e", "r">>,
    <<"T", "r", "a", "c", "k", " ", "N", "a", "m", "e">>,
    <<"A", "r", "t", "i", "s", "t", "(", "s", ")">>,
    <<"A", "l", "b", "u", "m", " ", "N", "a", "m", "e">>,
    <<"D", "u", "r", "a", "t", "i", "o", "n", " ", "(", "m", "m", ":", "s",
      "s", ")">>,
    <<"D", "a", "t", "e", " ", "A", "d", "d", "e", "d">>,
    <<"R", "e", "l", "e", "a", "s", "e", " ", "Y", "e", "a", "r">>,
    <<"P", "o", "p", "u", "l", "a", "r", "i", "t", "y">>,
    <<"E", "x", "p", "l", "i", "c", "i", "t">>,
    <<"S", "t", "r", "e", "a", "m", "s">>,
    <<"D", "a", "n", "c", "e", "a", "b", "i", "l", "i", "t", "y">>,
    <<"E", "n", "e", "r", "g", "y">>,
    <<"V", "a", "l", "e", "n", "c", "e">>,
    <<"T", "e", "m", "p", "o">>,
    <<"A", "c", "o", "u", "s", "t", "i", "c", "n", "e", "s", "s">>,
    <<"I", "n", "s", "t", "r", "u", "m", "e", "n", "t", "a", "l", "n", "e",
      "s", "s">>,
    <<"L", "i", "v", "e", "n", "e", "s", "s">>,
    <<"S", "p", "e", "e", "c", "h", "i", "n", "e", "s", "s">>,
    <<"L", "o", "u", "d", "n", "e", "s", "s">>,
    <<"K", "e", "y">>,
    <<"M", "o", "d", "e">>,
    <<"T", "i", "m", "e", " ", "S", "i", "g", "n", "a", "t", "u", "r", "e">>>>

\* One f-string of lines 95-101: the key, a comma, the formatted value.
MetadataLine(i, value) == MetadataKeys[i] \o <<",">> \o value \o <<"\n">>

\* Lines 94-102.  playlist_data.get raises AttributeError when the playlist
\* is not a dict; the label line of line 94 is in the buffer by then.
MetadataText(playlist, tracks, now) ==
  IF Tag(playlist) # "dict"
  THEN [raised |-> TRUE, value |-> TxtPlaylistMetadata \o <<"\n">>]
  ELSE LET p == Payload(playlist) IN
    [raised |-> FALSE,
     value |->
       TxtPlaylistMetadata \o <<"\n">>
         \o MetadataLine(1, PyStr(Get(p, "name", Str(TxtUnknownPlaylist))))
         \o MetadataLine(2, <<"\"">> \o PyStr(Get(p, "description", Str(<<>>)))
                              \o <<"\"">>)
         \o MetadataLine(3, PyStr(Get(p, "followers", IntV(0))))
         \o MetadataLine(4, PyStr(Get(p, "total_tracks", IntV(Len(tracks)))))
         \o MetadataLine(5, PyStr(Get(p, "total_duration", Str(TxtUnknown))))
         \o MetadataLine(6, PyStr(Get(p, "external_url", Str(<<>>))))
         \o MetadataLine(7, now)
         \o <<"\n">>]

\* Lines 105-134: the label line and the header row.
HeaderText ==
  TxtTracksData \o <<"\n">>
    \o writerow([i \in 1..Len(Headers) |-> Str(Headers[i])])

\* The keys of columns 2-7 and 8 of a data row, and of the audio columns.
PlainOrder ==
  <<"track_name", "artists", "album_name", "duration", "date_added",
    "release_year", "popularity">>

FeatureOrder ==
  <<"danceability", "energy", "valence", "tempo", "acousticness",
    "instrumentalness", "liveness", "speechiness", "loudness", "key", "mode",
    "time_signature">>

\* The default each track.get of lines 139-147 passes.
RowDefault(k) ==
  CASE k = "track_name" -> Str(TxtUnknown)
    [] k = "artists" -> Str(TxtUnknownArtist)
    [] k = "album_name" -> Str(TxtUnknownAlbum)
    [] k = "duration" -> Str(TxtZeroDuration)
    [] k = "popularity" -> IntV(0)
    [] k = "streams" -> Str(TxtNA)
    [] OTHER -> Str(TxtUnknown)

\* The row that carries the record's own track_number in its first column.
TrackRowCarried(i, track) ==
  IF Tag(track) # "dict" THEN [raised |-> TRUE, value |-> <<>>]
  ELSE LET t == Payload(track) IN
    [raised |-> FALSE,
     value |->
       <<Get(t, "track_number", IntV(0))>>
         \o [j \in 1..7 |-> Get(t, PlainOrder[j], RowDefault(PlainOrder[j]))]
         \o <<Str(IF Truthy(Get(t, "explicit", BoolV(FALSE)))
                  THEN TxtYes ELSE TxtNo),
              Get(t, "streams", Str(TxtNA))>>
         \o [j \in 1..12 |-> _format_audio_feature(Get1(t, FeatureOrder[j]))]]

\* Lines 138-161: the row list of the i-th track.  track.get raises
\* AttributeError when the track is not a dict.
TrackRow(i, track) ==
  IF Tag(track) # "dict" THEN [raised |-> TRUE, value |-> <<>>]
  ELSE LET t == Payload(track) IN
    [raised |-> FALSE,
     value |->
       <<IntV(i)>>
         \o [j \in 1..7 |-> Get(t, PlainOrder[j], RowDefault(PlainOrder[j]))]
         \o <<Str(IF Truthy(Get(t, "explicit", BoolV(FALSE)))
                  THEN TxtYes ELSE TxtNo),
              Get(t, "streams", Str(TxtNA))>>
         \o [j \in 1..12 |-> _format_audio_feature(Get1(t, FeatureOrder[j]))]]

\* Lines 137-162: the rows written from the i-th track on, until one raises.
RECURSIVE RowsText(_, _)
RowsText(tracks, i) ==
  IF i > Len(tracks) THEN [raised |-> FALSE, value |-> <<>>]
  ELSE LET r == TrackRow(i, tracks[i])
           rest == RowsText(tracks, i + 1) IN
    IF r.raised THEN [raised |-> TRUE, value |-> <<>>]
    ELSE [raised |-> rest.raised, value |-> writerow(r.value) \o rest.value]

\* DataProcessor.create_csv as one call: the document, or the wrapped
\* failure of lines 170-172.
create_csv(playlist, tracks, now) ==
  LET m == MetadataText(playlist, tracks, now)
      rows == RowsText(tracks, 1) IN
  IF m.raised \/ rows.raised THEN [raised |-> TRUE, value |-> <<>>]
  ELSE [raised |-> FALSE, value |-> m.value \o HeaderText \o rows.value]

\* ------------------------------------------ ExcelProcessor: the sheets
\* A text literal of the code put in a cell, kept whole.
Label(s) == <<"label", s>>

\* A worksheet: its title (the name asked for and the number openpyxl
\* appends to keep titles unique, 0 for none) and its rows of cell values.
\* _style_worksheet (lines 183-223) sets widths, borders, fills and the
\* frozen pane and leaves every cell value as it is.
Sheet(name, n, rows) == [title |-> <<name, n>>, rows |-> rows]

AllDicts(tracks) == \A i \in 1..Len(tracks) : Tag(tracks[i]) = "dict"

Records(tracks) == [i \in 1..Len(tracks) |-> Payload(tracks[i])]

\* The tracks before the first one that is not a dict.
DictPrefix(tracks) ==
  IF AllDicts(tracks) THEN Len(tracks)
  ELSE (CHOOSE i \in 1..Len(tracks) :
          /\ Tag(tracks[i]) # "dict"
          /\ \A j \in 1..(i - 1) : Tag(tracks[j]) = "dict") - 1

\* f"{num/den:.1f}": the nearest tenth, a tie going to the even tenth.
OneDecimal(num, den) ==
  LET q == (10 * num) \div den
      r == (10 * num) % den
      t == IF 2 * r < den THEN q
           ELSE IF 2 * r > den THEN q + 1
           ELSE IF q % 2 = 0 THEN q ELSE q + 1 IN
  IntToText(t \div 10) \o <<".">> \o IntToText(t % 10)

\* track.get('danceability') not in [None, 'N/A'] (lines 86 and 135)
HasDanceability(t) == Get1(t, "danceability") \notin {Null, Str(TxtNA)}

TxtNoDescription ==
  <<"N", "o", " ", "d", "e", "s", "c", "r", "i", "p", "t", "i", "o", "n">>

\* Lines 49-95: the title, the seven metadata rows, the Statistics label and
\* the five statistics.  The rows written before a fault stay in the sheet:
\* playlist_data.get raises on a playlist that is not a dict, the sums of
\* lines 82-84 on a track that is not a dict or on a None or text value, and
\* set() of line 91 on an artists list.
SummaryRows(playlist, tracks, now) ==
  LET title == << <<Label("Spotify Playlist Summary")>> >> IN
  IF Tag(playlist) # "dict" THEN [raised |-> TRUE, value |-> title]
  ELSE
    LET p == Payload(playlist)
        head ==
          title
            \o << <<Label("Playlist Name"), Get(p, "name", Str(TxtUnknown))>>,
                  <<Label("Description"),
                    Get(p, "description", Str(TxtNoDescription))>>,
                  <<Label("Total Saves/Followers"),
                    Get(p, "followers", IntV(0))>>,
                  <<Label("Number of Songs"), Get(p, "total_tracks", IntV(0))>>,
                  <<Label("Total Duration"),
                    Get(p, "total_duration", Str(TxtUnknown))>>,
                  <<Label("Spotify URL"), Get(p, "external_url", Str(<<>>))>>,
                  <<Label("Extracted on"), Str(now)>>,
                  <<Label("Statistics")>> >>
        t == Records(tracks)
        avg == AvgPopularity(t) IN
    IF \/ ~AllDicts(tracks)
       \/ SumRaises(t, "duration_ms")
       \/ avg.raised
       \/ \E i \in 1..Len(t) : Tag(Get(t[i], "artists", Str(TxtUnknown))) = "list"
    THEN [raised |-> TRUE, value |-> head]
    ELSE [raised |-> FALSE,
          value |->
            head
              \o << <<Label("Total Tracks Extracted"), IntV(Len(t))>>,
                    <<Label("Average Popularity"),
                      Str(OneDecimal(avg.num, avg.den))>>,
                    <<Label("Explicit Tracks"), IntV(CountIf(t, ExplicitCond))>>,
                    <<Label("Tracks with Audio Features"),
                      IntV(CountIf(t, HasDanceability))>>,
                    <<Label("Unique Artists"),
                      IntV(Cardinality({Get(t[i], "artists", Str(TxtUnknown)) :
                                          i \in 1..Len(t)}))>> >>]

\* Lines 104-107: the header row of the Track Details sheet.
TrackHeaders ==
  <<Label("Track #"), Label("Track Name"), Label("Artist(s)"),
    Label("Album Name"), Label("Duration (mm:ss)"), Label("Date Added"),
    Label("Release Year"), Label("Popularity"), Label("Explicit"),
    Label("Streams")>>

\* Lines 117-126: the cells of worksheet row `row` (rows count from 2).
XlTrackRow(row, track) ==
  LET t == Payload(track) IN
  <<IntV(row - 1)>>
    \o [j \in 1..7 |-> Get(t, PlainOrder[j], RowDefault(PlainOrder[j]))]
    \o <<Str(IF Truthy(Get(t, "explicit", BoolV(FALSE))) THEN TxtYes ELSE TxtNo),
         Get(t, "streams", Str(TxtNA))>>

\* Lines 104-126: the rows are written until a track is not a dict.
TracksRows(tracks) ==
  [raised |-> ~AllDicts(tracks),
   value |-> <<TrackHeaders>>
               \o [i \in 1..DictPrefix(tracks) |-> XlTrackRow(i + 1, tracks[i])]]

\* ExcelProcessor._format_feature (lines 175-181): round(value, 3) of a
\* number, str(value) of anything else.
_format_feature(value) ==
  IF value = Null \/ value = Str(TxtNA) THEN Str(TxtNA)
  ELSE CASE Tag(value) = "float" -> FloatV(Round3(Payload(value)))
         [] Tag(value) = "int" -> value
         [] Tag(value) = "bool" -> IntV(IF Payload(value) THEN 1 ELSE 0)
         [] OTHER -> Str(PyStr(value))

\* Lines 144-148: the header row of the Audio Features sheet.
FeatureHeaders ==
  <<Label("Track #"), Label("Track Name"), Label("Danceability"),
    Label("Energy"), Label("Valence"), Label("Tempo"), Label("Acousticness"),
    Label("Instrumentalness"), Label("Liveness"), Label("Speechiness"),
    Label("Loudness"), Label("Key"), Label("Mode"), Label("Time Signature")>>

\* Lines 158-171.
XlFeatureRow(row, track) ==
  LET t == Payload(track) IN
  <<IntV(row - 1), Get(t, "track_name", Str(TxtUnknown))>>
    \o [j \in 1..12 |-> _format_feature(Get1(t, FeatureOrder[j]))]

\* Line 135: any(...) stops at the first track that carries a danceability.
HasFeatures(tracks) ==
  \E i \in 1..DictPrefix(tracks) : HasDanceability(Payload(tracks[i]))

\* Lines 135-171.  any() raises at a track that is not a dict unless an
\* earlier track answered True; the data rows raise at that track.
AudioRows(tracks) ==
  IF HasFeatures(tracks)
  THEN [raised |-> ~AllDicts(tracks),
        value |-> <<FeatureHeaders>>
                    \o [i \in 1..DictPrefix(tracks) |->
                          XlFeatureRow(i + 1, tracks[i])]]
  ELSE IF ~AllDicts(tracks) THEN [raised |-> TRUE, value |-> <<>>]
  ELSE [raised |-> FALSE,
        value |-> << <<Label("Audio Features Not Available")>>,
                     <<Label("Audio features require extended API permissions or may not be available for all tracks.")>> >>]

\* ------------------------------------------------- openpyxl's Workbook
\* Workbook() holds one empty sheet titled "Sheet".
DefaultSheet == Sheet("Sheet", 0, <<>>)

Titles(book) == {book[i].title : i \in 1..Len(book)}

\* create_sheet keeps titles unique: a title in use gets the next number.
UniqueTitle(book, name) ==
  IF <<name, 0>> \notin Titles(book) THEN <<name, 0>>
  ELSE LET used == {n \in 0..Len(book) : <<name, n>> \in Titles(book)} IN
    <<name, 1 + (CHOOSE n \in used : \A k \in used : k <= n)>>

\* wb.create_sheet(name, 0) when first, wb.create_sheet(name) otherwise.
CreateSheet(book, name, first, rows) ==
  LET ws == [title |-> UniqueTitle(book, name), rows |-> rows] IN
  IF first THEN <<ws>> \o book ELSE Append(book, ws)

\* ExcelProcessor.create_excel as one call on a processor of its own: the
\* sheets of the saved workbook, or the wrapped failure of lines 41-43.
create_excel(playlist, tracks, now) ==
  LET s == SummaryRows(playlist, tracks, now)
      t == TracksRows(tracks)
      a == AudioRows(tracks) IN
  IF s.raised \/ t.raised \/ a.raised THEN [raised |-> TRUE, value |-> <<>>]
  ELSE [raised |-> FALSE,
        value |-> <<Sheet("Playlist Summary", 0, s.value),
                    Sheet("Track Details", 0, t.value),
                    Sheet("Audio Features", 0, a.value)>>]

\* ------------------------------------------------ inputs of the exporters
TxtRoadTrip == <<"R", "o", "a", "d", " ", "T", "r", "i", "p">>

\* A playlist record with followers and total_tracks, and with the name and
\* the description given (Absent leaves the key out).
PlaylistOf(name, description) ==
  DictV([k \in {"followers", "total_tracks"}
                 \cup (IF name = Absent THEN {} ELSE {"name"})
                 \cup (IF description = Absent THEN {} ELSE {"description"}) |->
           CASE k = "name" -> name
             [] k = "description" -> description
             [] k = "followers" -> IntV(120)
             [] OTHER -> IntV(2)])

\* The playlist of the end-to-end scenario, playlists whose name and
\* description hold a comma, a quote or a newline, and a playlist that is
\* None (the JSON null of a request body).
ExportPlaylists ==
  {PlaylistOf(Str(TxtRoadTrip), Absent),
   PlaylistOf(Str(<<"a", ",", "b">>), Str(<<"q", "\"">>)),
   PlaylistOf(Absent, Str(<<"l", "\n", "m">>)),
   Null}

\* Canonical track A carrying track_number 7.
ExportTrackA ==
  DictV(SetKey(_standardize_track(RoadTripA).value, "track_number", IntV(7)))

\* Canonical track B with a comma and a quote in its name, a newline in its
\* album name and a raw danceability.
ExportTrackB ==
  DictV(SetKey(SetKey(SetKey(_standardize_track(RoadTripB).value,
                             "track_name", Str(<<"B", ",", "\"">>)),
                      "album_name", Str(<<"l", "\n", "m">>)),
               "danceability", FloatV(123456)))

\* Canonical track A with an energy and no danceability.
ExportTrackE ==
  DictV(SetKey(_standardize_track(RoadTripA).value, "energy", FloatV(500000)))

\* A record whose duration_ms is None.
ExportTrackX == DictV([k \in {"duration_ms"} |-> Null])

\* Track records, and a track that is None.
ExportTracks ==
  {ExportTrackA, ExportTrackB, ExportTrackE, ExportTrackX, Null}

\* datetime.now().strftime('%Y-%m-%d %H:%M:%S')
Timestamps ==
  {<<"2", "0", "2", "4", "-", "0", "1", "-", "0", "2", " ", "0", "3", ":",
    "0", "4", ":", "0", "5">>}

\* The two create_excel calls and the ExcelProcessor objects they run on.
Calls == {1, 2}

Instances == {1, 2}

\* ----------------------------------- main.py: export_csv, export_excel
TxtPlaylist == <<"p", "l", "a", "y", "l", "i", "s", "t">>

TxtSpotify_ == <<"s", "p", "o", "t", "i", "f", "y", "_">>

TxtTracksCsv == <<"_", "t", "r", "a", "c", "k", "s", ".", "c", "s", "v">>

TxtTracksXlsx ==
  <<"_", "t", "r", "a", "c", "k", "s", ".", "x", "l", "s", "x">>

\* Lines 111-112 and 145-146: name.replace(' ', '_') between the prefix and
\* the suffix.
ExportFilename(name, kind) ==
  TxtSpotify_ \o [i \in 1..Len(name) |-> IF name[i] = " " THEN "_" ELSE name[i]]
    \o (IF kind = "csv" THEN TxtTracksCsv ELSE TxtTracksXlsx)

NoResponse ==
  [status |-> 0, error |-> "", rendered |-> FALSE, content |-> <<>>,
   filename |-> <<>>]

\* The handler with lines 99-100 (133-134) left out.
ExportHandlerNoCheck(data, kind, now) ==
  LET playlist == Get(data, "playlist", DictV(EmptyTrack))
      tracks == Get(data, "tracks", ListV(<<>>))
      r == IF Tag(tracks) # "list" THEN [raised |-> TRUE, value |-> <<>>]
           ELSE IF kind = "csv" THEN create_csv(playlist, Payload(tracks), now)
           ELSE create_excel(playlist, Payload(tracks), now)
      name == Get(Payload(playlist), "name", Str(TxtPlaylist)) IN
  IF r.raised \/ Tag(name) # "str"
  THEN [NoResponse EXCEPT
          !.status = 500, !.rendered = TRUE,
          !.error = IF kind = "csv" THEN "Failed to export CSV"
                    ELSE "Failed to export Excel"]
  ELSE [NoResponse EXCEPT
          !.status = 200, !.rendered = TRUE, !.content = r.value,
          !.filename = ExportFilename(Payload(name), kind)]

\* export_csv (lines 93-123) and export_excel (lines 127-157) on the JSON
\* object data.  An empty or missing track list is answered 400 before a
\* processor is made; a track list that is not a list has no len() for
\* create_csv and no get() on its items, so rendering raises; a fault in
\* rendering or in name.replace is answered 500.
ExportHandler(data, kind, now) ==
  LET playlist == Get(data, "playlist", DictV(EmptyTrack))
      tracks == Get(data, "tracks", ListV(<<>>))
      r == IF Tag(tracks) # "list" THEN [raised |-> TRUE, value |-> <<>>]
           ELSE IF kind = "csv" THEN create_csv(playlist, Payload(tracks), now)
           ELSE create_excel(playlist, Payload(tracks), now)
      name == Get(Payload(playlist), "name", Str(TxtPlaylist)) IN
  IF ~Truthy(tracks)
  THEN [NoResponse EXCEPT !.status = 400, !.error = "No tracks data to export"]
  ELSE IF r.raised \/ Tag(name) # "str"
  THEN [NoResponse EXCEPT
          !.status = 500, !.rendered = TRUE,
          !.error = IF kind = "csv" THEN "Failed to export CSV"
                    ELSE "Failed to export Excel"]
  ELSE [NoResponse EXCEPT
          !.status = 200, !.rendered = TRUE, !.content = r.value,
          !.filename = ExportFilename(Payload(name), kind)]

\* A playlist name holding a tab, a newline and a space.
TxtTabbedName == <<"a", "\t", "b", "\n", "c", " ", "d">>

\* The JSON objects posted to the export endpoints: the playlist key absent
\* or one of the playlists of the exporters or the playlist with the tabbed
\* name; the tracks key absent, null, an empty list, a number, or a list of
\* tracks.
ExportRequests ==
  {[k \in (IF p = Absent THEN {} ELSE {"playlist"})
            \cup (IF t = Absent THEN {} ELSE {"tracks"}) |->
      IF k = "playlist" THEN p ELSE t] :
     p \in ExportPlaylists \cup {Absent, PlaylistOf(Str(TxtTabbedName), Absent)},
     t \in {Absent, Null, IntV(5)}
            \cup {ListV(s) : s \in SeqsUpTo(ExportTracks, MaxExportTracks)}}

\* ------------------------------------------- main.py: extract_playlist
TxtPlaylistSlash == <<"p", "l", "a", "y", "l", "i", "s", "t", "/">>

\* str.strip(): whitespace at both ends is dropped.
Strip(s) ==
  LET kept == {i \in 1..Len(s) : s[i] \notin {" ", "\t", "\n", "\r"}} IN
  IF kept = {} THEN <<>>
  ELSE SubSeq(s, CHOOSE i \in kept : \A j \in kept : i <= j,
                 CHOOSE i \in kept : \A j \in kept : i >= j)

\* The positions of s where sub starts.
Occurrences(s, sub) ==
  {i \in 1..(Len(s) - Len(sub) + 1) : SubSeq(s, i, i + Len(sub) - 1) = sub}

\* Lines 27-35: url.split('playlist/')[-1].split('?')[0], the text after
\* the last 'playlist/' up to the first '?'; a url without 'playlist/'
\* raises ValueError inside the try and None is returned.
extract_playlist_id(url) ==
  LET at == Occurrences(url, TxtPlaylistSlash) IN
  IF at = {} THEN Null
  ELSE LET last == CHOOSE i \in at : \A j \in at : i >= j
           rest == SubSeq(url, last + Len(TxtPlaylistSlash), Len(url))
           marks == {i \in 1..Len(rest) : rest[i] = "?"} IN
       IF marks = {} THEN Str(rest)
       ELSE Str(SubSeq(rest, 1, (CHOOSE i \in marks : \A j \in marks : i <= j) - 1))

\* Lines 19-32 of data_processor.py as one step: the standardized tracks, in
\* order, without the tracks _standardize_track raised on.
RECURSIVE ProcessedTracks(_)
ProcessedTracks(tracks) ==
  IF tracks = <<>> THEN <<>>
  ELSE LET r == _standardize_track(Head(tracks)) IN
       (IF r.raised THEN <<>> ELSE <<r.value>>) \o ProcessedTracks(Tail(tracks))

NoExtractResponse ==
  [kind |-> "pending", status |-> 0, error |-> "", body |-> <<>>]

ErrorResponse(status, error) ==
  [kind |-> "error", status |-> status, error |-> error, body |-> <<>>]

\* Lines 70-76: the success body; jsonify answers it with status 200.
SuccessResponse(playlist, processed) ==
  [kind |-> "success", status |-> 200, error |-> "",
   body |-> [method |-> "Spotify API", playlist |-> playlist,
             tracks |-> SubSeq(processed, 1,
                               IF Len(processed) < 20 THEN Len(processed)
                               ELSE 20),
             total_tracks |-> Len(processed)]]

\* The view function ended without a return statement: it returned None.
NoneReturned == [kind |-> "none", status |-> 0, error |-> "", body |-> <<>>]

\* The url field of the posted JSON object: absent, null, empty, blank, a
\* text without 'playlist/', and playlist urls with and without a query
\* and an id.
ExtractUrls ==
  {Absent, Null, Str(<<>>), Str(<<" ", " ">>), Str(<<"a", "b", "c">>),
   Str(<<" ", "x", "/", "p", "l", "a", "y", "l", "i", "s", "t", "/", "a", "b", "?",
  "s", "i", "=", "1", " ">>),
   Str(<<"p", "l", "a", "y", "l", "i", "s", "t", "/", "a", "b">>),
   Str(<<"p", "l", "a", "y", "l", "i", "s", "t", "/", "p", "/", "p", "l", "a", "y",
  "l", "i", "s", "t", "/", "c">>),
   Str(<<"x", "/", "p", "l", "a", "y", "l", "i", "s", "t", "/">>)}

\* What SpotifyExtractor.extract_playlist_data does for the playlist id: it
\* raises, or it returns the playlist record and the list of track records
\* (empty for a playlist without playable tracks).
ApiOutcomes ==
  {[raised |-> TRUE, playlist |-> EmptyTrack, tracks |-> <<>>]}
  \cup {[raised |-> FALSE, playlist |-> p, tracks |-> t] :
          p \in {RoadTripPlaylist, EmptyTrack},
          t \in SeqsUpTo({ApiTrack, SetKey(ApiTrack, "artists", Null)}, 2)}

\* ------------------------------------------------------------------ state
VARIABLES
  track,    \* the raw record handed to _standardize_track
  canon,    \* the record it returned
  canon2,   \* the record returned when canon is handed to it again
  pc,       \* "start", "standardized", "faulted", "restandardized", "refaulted"
  date_in,      \* how date_string was put together
  date_string,  \* the argument of _format_date
  date_result,  \* the value it returned
  dpc,          \* "start", "returned", "raised"
  tracks_data,       \* the argument of process_tracks
  processed_tracks,  \* its list of results
  idx,               \* the position of the for loop of line 23
  ppc,               \* "loop", "returned", "raised"
  playlist_data,   \* the playlist record handed to get_data_summary
  sum_tracks,      \* the track sequence handed to the aggregate calculator
  total_duration,  \* the text calculate_total_duration returned
  summary,         \* the record get_data_summary returned
  spc,             \* "start", "duration", "duration_raised", "summarized",
                   \* "summary_raised"
  now,           \* the text datetime.now().strftime gives during the calls
  csv_playlist,  \* the playlist handed to create_csv
  csv_tracks,    \* the track list handed to create_csv
  output,        \* the StringIO of line 91: its state and its text
  csv_i,         \* the position of the for loop of line 137
  csv_result,    \* what create_csv returned or raised
  cpc,           \* "start", "metadata", "header", "rows", "returned", "raised"
  xl_playlist,   \* per call: the playlist handed to create_excel
  xl_tracks,     \* per call: the track list handed to create_excel
  inst,          \* per call: the ExcelProcessor the call runs on
  wb,            \* per ExcelProcessor: self.wb, a position in books (0: None)
  books,         \* the Workbook objects made so far, each a list of sheets
  excel_buffer,  \* per call: the BytesIO of line 34: its state and its data
  excel_result,  \* per call: what create_excel returned or raised
  xpc,           \* per call: "start", "remove", "summary", "tracks", "audio",
                 \* "save", "returned", "raised"
  request,       \* the JSON object request.get_json() gives a handler
  response,      \* what the handler answered
  hpc,           \* "start", "done"
  url_field,     \* the url of the JSON object posted to /extract, or Absent
  credentials,   \* whether SpotifyExtractor() finds usable credentials
  api_outcome,   \* what extract_playlist_data does for this playlist
  playlist_url,  \* extract_playlist's local
  playlist_id,   \* extract_playlist's local
  extract_response, \* what extract_playlist returned
  epc            \* "start", "id", "extractor", "acquire", "done"

normVars == <<track, canon, canon2, pc>>

dateVars == <<date_in, date_string, date_result, dpc>>

procVars == <<tracks_data, processed_tracks, idx, ppc>>

sumVars == <<playlist_data, sum_tracks, total_duration, summary, spc>>

csvVars == <<csv_playlist, csv_tracks, output, csv_i, csv_result, cpc>>

xlVars ==
  <<xl_playlist, xl_tracks, inst, wb, books, excel_buffer, excel_result, xpc>>

exportVars == <<now, csvVars, xlVars>>

extractVars ==
  <<url_field, credentials, api_outcome, playlist_url, playlist_id,
    extract_response, epc>>

handlerVars == <<request, response, hpc, extractVars>>

vars == <<normVars, dateVars, procVars, sumVars, exportVars, handlerVars>>

\* What each component leaves alone: the variables of the others.
notNorm == <<dateVars, procVars, sumVars, exportVars,
            handlerVars>>

notDate == <<normVars, procVars, sumVars, exportVars,
            handlerVars>>

notProc == <<normVars, dateVars, sumVars, exportVars,
            handlerVars>>

notSum == <<normVars, dateVars, procVars, exportVars,
            handlerVars>>

notExport == <<normVars, dateVars, procVars, sumVars, handlerVars>>

notHandler ==
  <<normVars, dateVars, procVars, sumVars, csvVars, xlVars, extractVars>>

notExtract ==
  <<normVars, dateVars, procVars, sumVars, exportVars, request, response, hpc>>

NormIdle == track = <<>> /\ canon = <<>> /\ canon2 = <<>> /\ pc = "idle"

DateIdle ==
  /\ date_in = [kind |-> "other", y |-> 2023, a |-> NoField, b |-> NoField,
                clock |-> NoClock, other |-> Null]
  /\ date_string = Null
  /\ date_result = Null
  /\ dpc = "idle"

ProcIdle ==
  tracks_data = <<>> /\ processed_tracks = <<>> /\ idx = 0 /\ ppc = "idle"

SumIdle ==
  /\ playlist_data = <<>>
  /\ sum_tracks = <<>>
  /\ total_duration = <<>>
  /\ summary = NoSummary
  /\ spc = "idle"

\* No export call is under way.
NoResult == [kind |-> "none", content |-> <<>>, error |-> ""]

NoBuffer == [state |-> "none", data |-> <<>>]

CsvIdle ==
  /\ csv_playlist = Null
  /\ csv_tracks = <<>>
  /\ output = NoBuffer
  /\ csv_i = 0
  /\ csv_result = NoResult
  /\ cpc = "idle"

XlIdle ==
  /\ xl_playlist = [c \in Calls |-> Null]
  /\ xl_tracks = [c \in Calls |-> <<>>]
  /\ inst = [c \in Calls |-> c]
  /\ wb = [p \in Instances |-> 0]
  /\ books = <<>>
  /\ excel_buffer = [c \in Calls |-> NoBuffer]
  /\ excel_result = [c \in Calls |-> NoResult]
  /\ xpc = [c \in Calls |-> "idle"]

ExportIdle == now = <<>> /\ CsvIdle /\ XlIdle

ExtractIdle ==
  /\ url_field = Absent
  /\ credentials = FALSE
  /\ api_outcome = [raised |-> TRUE, playlist |-> EmptyTrack, tracks |-> <<>>]
  /\ playlist_url = <<>>
  /\ playlist_id = Null
  /\ extract_response = NoExtractResponse
  /\ epc = "idle"

ExportHandlerIdle ==
  request = EmptyTrack /\ response = NoResponse /\ hpc = "idle"

HandlerIdle == ExportHandlerIdle /\ ExtractIdle

\* ------------------------------------------------- normalizer: one track
InitNorm ==
  /\ track \in RawTracks
  /\ canon = <<>>
  /\ canon2 = <<>>
  /\ pc = "start"

\* processed_track = self._standardize_track(track)
Standardize ==
  /\ pc = "start"
  /\ LET r == _standardize_track(track) IN
       /\ canon' = r.value
       /\ pc' = IF r.raised THEN "faulted" ELSE "standardized"
  /\ UNCHANGED <<track, canon2, notNorm>>

\* The canonical record is handed to _standardize_track as a raw record.
Restandardize ==
  /\ pc = "standardized"
  /\ LET r == _standardize_track(canon) IN
       /\ canon2' = r.value
       /\ pc' = IF r.raised THEN "refaulted" ELSE "restandardized"
  /\ UNCHANGED <<track, canon, notNorm>>

Init == InitNorm /\ DateIdle /\ ProcIdle /\ SumIdle /\ ExportIdle
          /\ HandlerIdle

Next == Standardize \/ Restandardize

Spec == Init /\ [][Next]_vars

\* ------------------------------------------------- _format_date alone
InitDate ==
  /\ date_in \in DateInputs
  /\ date_string = DateStringOf(date_in)
  /\ date_result = Null
  /\ dpc = "start"

\* self._format_date(date_string)
FormatDate ==
  /\ dpc = "start"
  /\ LET r == _format_date(date_string) IN
       /\ date_result' = r.value
       /\ dpc' = IF r.raised THEN "raised" ELSE "returned"
  /\ UNCHANGED <<date_in, date_string, notDate>>

InitD == InitDate /\ NormIdle /\ ProcIdle /\ SumIdle /\ ExportIdle
          /\ HandlerIdle

NextDate == FormatDate

SpecDate == InitD /\ [][NextDate]_vars

\* ----------------------------------------- DataProcessor.process_tracks
InitProcess ==
  /\ tracks_data \in SeqsUpTo(ProcTracks, MaxTracks)
  /\ processed_tracks = <<>>
  /\ idx = 1
  /\ ppc = "loop"

\* Lines 25-26: the track is standardized and appended.
ProcessAppend ==
  /\ ppc = "loop"
  /\ idx <= Len(tracks_data)
  /\ ~_standardize_track(tracks_data[idx]).raised
  /\ processed_tracks' =
       Append(processed_tracks, _standardize_track(tracks_data[idx]).value)
  /\ idx' = idx + 1
  /\ UNCHANGED <<tracks_data, ppc, notProc>>

\* Lines 27-29 leaving the loop at the first fault.
ProcessSkipBreak ==
  /\ ppc = "loop"
  /\ idx <= Len(tracks_data)
  /\ _standardize_track(tracks_data[idx]).raised
  /\ idx' = Len(tracks_data) + 1
  /\ UNCHANGED <<tracks_data, processed_tracks, ppc, notProc>>

\* Lines 27-29: _standardize_track raised; the handler logs
\* track.get('name', 'Unknown'), which a mapping always answers, and the
\* loop continues with the next track.
ProcessSkip ==
  /\ ppc = "loop"
  /\ idx <= Len(tracks_data)
  /\ _standardize_track(tracks_data[idx]).raised
  /\ idx' = idx + 1
  /\ UNCHANGED <<tracks_data, processed_tracks, ppc, notProc>>

\* Lines 31-32: the loop is over.
ProcessReturn ==
  /\ ppc = "loop"
  /\ idx > Len(tracks_data)
  /\ ppc' = "returned"
  /\ UNCHANGED <<tracks_data, processed_tracks, idx, notProc>>

InitP == InitProcess /\ NormIdle /\ DateIdle /\ SumIdle /\ ExportIdle
          /\ HandlerIdle

NextProcess == ProcessAppend \/ ProcessSkip \/ ProcessReturn

SpecProcess == InitP /\ [][NextProcess]_vars

\* ------------------------------------------------ aggregate calculator
InitSummary ==
  /\ playlist_data \in Playlists
  /\ sum_tracks \in SeqsUpTo(SummaryTracks, MaxSummaryTracks)
  /\ total_duration = <<>>
  /\ summary = NoSummary
  /\ spc = "start"

\* self.calculate_total_duration(tracks_data)
CalcTotalDuration ==
  /\ spc = "start"
  /\ LET r == calculate_total_duration(sum_tracks) IN
       /\ total_duration' = r.value
       /\ spc' = IF r.raised THEN "duration_raised" ELSE "duration"
  /\ UNCHANGED <<playlist_data, sum_tracks, summary, notSum>>

\* self.get_data_summary(playlist_data, tracks_data)
GetDataSummary ==
  /\ spc = "start"
  /\ LET r == get_data_summary(playlist_data, sum_tracks) IN
       /\ summary' = r.value
       /\ spc' = IF r.raised THEN "summary_raised" ELSE "summarized"
  /\ UNCHANGED <<playlist_data, sum_tracks, total_duration, notSum>>

InitS == InitSummary /\ NormIdle /\ DateIdle /\ ProcIdle /\ ExportIdle
          /\ HandlerIdle

NextSummary == CalcTotalDuration \/ GetDataSummary

SpecSummary == InitS /\ [][NextSummary]_vars

\* ------------------------------------------- DataProcessor.create_csv
\* The wrapped failure of lines 170-172 and of lines 41-43.
Failure(message) == [kind |-> "error", content |-> <<>>, error |-> message]

\* Line 91: output = io.StringIO()
CsvOpen ==
  /\ cpc = "start"
  /\ output' = [state |-> "open", data |-> <<>>]
  /\ cpc' = "metadata"
  /\ UNCHANGED <<csv_playlist, csv_tracks, csv_i, csv_result, now, xlVars,
                 notExport>>

\* Lines 94-102; a fault goes to the handler of lines 170-172.
CsvWriteMetadata ==
  /\ cpc = "metadata"
  /\ LET m == MetadataText(csv_playlist, csv_tracks, now) IN
       /\ output' = [output EXCEPT !.data = @ \o m.value]
       /\ cpc' = IF m.raised THEN "raised" ELSE "header"
       /\ csv_result' =
            IF m.raised THEN Failure("Failed to create CSV") ELSE csv_result
  /\ UNCHANGED <<csv_playlist, csv_tracks, csv_i, now, xlVars, notExport>>

\* Lines 105-134.
CsvWriteHeader ==
  /\ cpc = "header"
  /\ output' = [output EXCEPT !.data = @ \o HeaderText]
  /\ csv_i' = 1
  /\ cpc' = "rows"
  /\ UNCHANGED <<csv_playlist, csv_tracks, csv_result, now, xlVars,
                 notExport>>

\* Lines 137-162 with a handler that returns what the buffer holds.
CsvWriteRowPartial ==
  /\ cpc = "rows"
  /\ csv_i <= Len(csv_tracks)
  /\ LET r == TrackRow(csv_i, csv_tracks[csv_i]) IN
       IF r.raised
       THEN /\ cpc' = "returned"
            /\ csv_result' =
                 [kind |-> "content", content |-> output.data, error |-> ""]
            /\ UNCHANGED <<output, csv_i>>
       ELSE /\ output' = [output EXCEPT !.data = @ \o writerow(r.value)]
            /\ csv_i' = csv_i + 1
            /\ UNCHANGED <<cpc, csv_result>>
  /\ UNCHANGED <<csv_playlist, csv_tracks, now, xlVars, notExport>>

\* Lines 137-162: one turn of the loop; a fault goes to lines 170-172.
CsvWriteRow ==
  /\ cpc = "rows"
  /\ csv_i <= Len(csv_tracks)
  /\ LET r == TrackRow(csv_i, csv_tracks[csv_i]) IN
       IF r.raised
       THEN /\ cpc' = "raised"
            /\ csv_result' = Failure("Failed to create CSV")
            /\ UNCHANGED <<output, csv_i>>
       ELSE /\ output' = [output EXCEPT !.data = @ \o writerow(r.value)]
            /\ csv_i' = csv_i + 1
            /\ UNCHANGED <<cpc, csv_result>>
  /\ UNCHANGED <<csv_playlist, csv_tracks, now, xlVars, notExport>>

\* Lines 164-168: getvalue, close, return.
CsvReturn ==
  /\ cpc = "rows"
  /\ csv_i > Len(csv_tracks)
  /\ csv_result' = [kind |-> "content", content |-> output.data, error |-> ""]
  /\ output' = [output EXCEPT !.state = "closed"]
  /\ cpc' = "returned"
  /\ UNCHANGED <<csv_playlist, csv_tracks, csv_i, now, xlVars, notExport>>

\* ----------------------------------------- ExcelProcessor.create_excel
\* What call c leaves alone when it fails: lines 41-43.
XlRaise(c) ==
  /\ xpc' = [xpc EXCEPT ![c] = "raised"]
  /\ excel_result' =
       [excel_result EXCEPT ![c] = Failure("Failed to create Excel file")]

\* Line 23: self.wb = Workbook()
XlNewWorkbook(c) ==
  /\ xpc[c] = "start"
  /\ books' = Append(books, <<DefaultSheet>>)
  /\ wb' = [wb EXCEPT ![inst[c]] = Len(books) + 1]
  /\ xpc' = [xpc EXCEPT ![c] = "remove"]
  /\ UNCHANGED <<xl_playlist, xl_tracks, inst, excel_buffer, excel_result,
                 now, csvVars, notExport>>

\* Line 26 left out: the sheet Workbook() came with stays in the workbook.
XlRemoveActiveKept(c) ==
  /\ xpc[c] = "remove"
  /\ xpc' = [xpc EXCEPT ![c] = "summary"]
  /\ UNCHANGED <<xl_playlist, xl_tracks, inst, wb, books, excel_buffer,
                 excel_result, now, csvVars, notExport>>

\* Line 26: self.wb.remove(self.wb.active).  The active sheet is the first
\* one; remove raises ValueError when the workbook holds no sheet.
XlRemoveActive(c) ==
  /\ xpc[c] = "remove"
  /\ IF Len(books[wb[inst[c]]]) = 0
     THEN XlRaise(c) /\ UNCHANGED books
     ELSE /\ books' = [books EXCEPT ![wb[inst[c]]] = Tail(@)]
          /\ xpc' = [xpc EXCEPT ![c] = "summary"]
          /\ UNCHANGED excel_result
  /\ UNCHANGED <<xl_playlist, xl_tracks, inst, wb, excel_buffer, now, csvVars,
                 notExport>>

\* Line 29: _create_summary_sheet puts its sheet first in self.wb.
XlSummarySheet(c) ==
  /\ xpc[c] = "summary"
  /\ LET r == SummaryRows(xl_playlist[c], xl_tracks[c], now) IN
       /\ books' = [books EXCEPT ![wb[inst[c]]] =
                      CreateSheet(@, "Playlist Summary", TRUE, r.value)]
       /\ IF r.raised THEN XlRaise(c)
          ELSE /\ xpc' = [xpc EXCEPT ![c] = "tracks"]
               /\ UNCHANGED excel_result
  /\ UNCHANGED <<xl_playlist, xl_tracks, inst, wb, excel_buffer, now, csvVars,
                 notExport>>

\* _create_tracks_sheet reading the name with track.pop('track_name',
\* 'Unknown'): the key leaves the caller's track record.
XlTracksSheetPop(c) ==
  /\ xpc[c] = "tracks"
  /\ LET r == TracksRows(xl_tracks[c]) IN
       /\ books' = [books EXCEPT ![wb[inst[c]]] =
                      CreateSheet(@, "Track Details", FALSE, r.value)]
       /\ IF r.raised THEN XlRaise(c)
          ELSE /\ xpc' = [xpc EXCEPT ![c] = "audio"]
               /\ UNCHANGED excel_result
  /\ xl_tracks' =
       [xl_tracks EXCEPT
          ![c] = [i \in 1..Len(@) |->
                    IF i <= DictPrefix(@)
                    THEN DictV([k \in DOMAIN Payload(@[i]) \ {"track_name"} |->
                                  Payload(@[i])[k]])
                    ELSE @[i]]]
  /\ UNCHANGED <<xl_playlist, inst, wb, excel_buffer, now, csvVars,
                 notExport>>

\* Line 30: _create_tracks_sheet appends its sheet to self.wb.
XlTracksSheet(c) ==
  /\ xpc[c] = "tracks"
  /\ LET r == TracksRows(xl_tracks[c]) IN
       /\ books' = [books EXCEPT ![wb[inst[c]]] =
                      CreateSheet(@, "Track Details", FALSE, r.value)]
       /\ IF r.raised THEN XlRaise(c)
          ELSE /\ xpc' = [xpc EXCEPT ![c] = "audio"]
               /\ UNCHANGED excel_result
  /\ UNCHANGED <<xl_playlist, xl_tracks, inst, wb, excel_buffer, now, csvVars,
                 notExport>>

\* Line 31: _create_audio_features_sheet appends its sheet to self.wb.
XlAudioSheet(c) ==
  /\ xpc[c] = "audio"
  /\ LET r == AudioRows(xl_tracks[c]) IN
       /\ books' = [books EXCEPT ![wb[inst[c]]] =
                      CreateSheet(@, "Audio Features", FALSE, r.value)]
       /\ IF r.raised THEN XlRaise(c)
          ELSE /\ xpc' = [xpc EXCEPT ![c] = "save"]
               /\ UNCHANGED excel_result
  /\ UNCHANGED <<xl_playlist, xl_tracks, inst, wb, excel_buffer, now, csvVars,
                 notExport>>

\* Lines 34-39: the sheets self.wb holds now are saved to a new BytesIO and
\* its bytes are returned; save raises when the workbook holds no sheet.
\* The buffer is not closed.
XlSave(c) ==
  /\ xpc[c] = "save"
  /\ IF Len(books[wb[inst[c]]]) = 0
     THEN /\ XlRaise(c)
          /\ excel_buffer' =
               [excel_buffer EXCEPT ![c] = [state |-> "open", data |-> <<>>]]
     ELSE /\ excel_buffer' =
               [excel_buffer EXCEPT
                  ![c] = [state |-> "open", data |-> books[wb[inst[c]]]]]
          /\ excel_result' =
               [excel_result EXCEPT
                  ![c] = [kind |-> "content", content |-> books[wb[inst[c]]],
                          error |-> ""]]
          /\ xpc' = [xpc EXCEPT ![c] = "returned"]
  /\ UNCHANGED <<xl_playlist, xl_tracks, inst, wb, books, now, csvVars,
                 notExport>>

\* ------------------------------- one create_csv and one create_excel call
\* Both exporters are handed the same playlist and the same track list.
InitExport ==
  /\ now \in Timestamps
  /\ csv_playlist \in ExportPlaylists
  /\ csv_tracks \in SeqsUpTo(ExportTracks, MaxExportTracks)
  /\ output = NoBuffer
  /\ csv_i = 0
  /\ csv_result = NoResult
  /\ cpc = "start"
  /\ xl_playlist = [c \in Calls |-> IF c = 1 THEN csv_playlist ELSE Null]
  /\ xl_tracks = [c \in Calls |-> IF c = 1 THEN csv_tracks ELSE <<>>]
  /\ inst = [c \in Calls |-> c]
  /\ wb = [p \in Instances |-> 0]
  /\ books = <<>>
  /\ excel_buffer = [c \in Calls |-> NoBuffer]
  /\ excel_result = [c \in Calls |-> NoResult]
  /\ xpc = [c \in Calls |-> IF c = 1 THEN "start" ELSE "idle"]

InitE ==
  InitExport /\ NormIdle /\ DateIdle /\ ProcIdle /\ SumIdle /\ HandlerIdle

NextExport ==
  \/ CsvOpen
  \/ CsvWriteMetadata
  \/ CsvWriteHeader
  \/ CsvWriteRow
  \/ CsvReturn
  \/ \E c \in Calls : XlNewWorkbook(c)
  \/ \E c \in Calls : XlRemoveActive(c)
  \/ \E c \in Calls : XlSummarySheet(c)
  \/ \E c \in Calls : XlTracksSheet(c)
  \/ \E c \in Calls : XlAudioSheet(c)
  \/ \E c \in Calls : XlSave(c)

SpecExport == InitE /\ [][NextExport]_vars

\* ------------------------ the downstream stages on records handed to them
\* One call of each: create_csv and create_excel on one playlist and one
\* track list, process_tracks on raw records, and calculate_total_duration
\* or get_data_summary on canonical records, in any interleaving.
InitDownstream ==
  /\ now \in Timestamps
  /\ csv_playlist \in {PlaylistOf(Str(TxtRoadTrip), Absent), Null}
  /\ csv_tracks \in SeqsUpTo({ExportTrackA, Null}, MaxExportTracks)
  /\ output = NoBuffer
  /\ csv_i = 0
  /\ csv_result = NoResult
  /\ cpc = "start"
  /\ xl_playlist = [c \in Calls |-> IF c = 1 THEN csv_playlist ELSE Null]
  /\ xl_tracks = [c \in Calls |-> IF c = 1 THEN csv_tracks ELSE <<>>]
  /\ inst = [c \in Calls |-> c]
  /\ wb = [p \in Instances |-> 0]
  /\ books = <<>>
  /\ excel_buffer = [c \in Calls |-> NoBuffer]
  /\ excel_result = [c \in Calls |-> NoResult]
  /\ xpc = [c \in Calls |-> IF c = 1 THEN "start" ELSE "idle"]
  /\ tracks_data = <<RoadTripA, SetKey(ApiTrack, "artists", Null)>>
  /\ processed_tracks = <<>>
  /\ idx = 1
  /\ ppc = "loop"
  /\ playlist_data = RoadTripPlaylist
  /\ sum_tracks \in {<<>>, <<_standardize_track(RoadTripA).value>>}
  /\ total_duration = <<>>
  /\ summary = NoSummary
  /\ spc = "start"

InitDS == InitDownstream /\ NormIdle /\ DateIdle /\ HandlerIdle

NextDownstream ==
  \/ CsvOpen
  \/ CsvWriteMetadata
  \/ CsvWriteHeader
  \/ CsvWriteRow
  \/ CsvReturn
  \/ \E c \in Calls : XlNewWorkbook(c)
  \/ \E c \in Calls : XlRemoveActive(c)
  \/ \E c \in Calls : XlSummarySheet(c)
  \/ \E c \in Calls : XlTracksSheet(c)
  \/ \E c \in Calls : XlAudioSheet(c)
  \/ \E c \in Calls : XlSave(c)
  \/ ProcessAppend
  \/ ProcessSkip
  \/ ProcessReturn
  \/ CalcTotalDuration
  \/ GetDataSummary

SpecDownstream == InitDS /\ [][NextDownstream]_vars

\* ----------------------------------- two create_excel calls at one time
\* Each call has its own playlist and track list; the two calls run on two
\* ExcelProcessor instances or on the same one, and a step of either call
\* may run between any two steps of the other.
InitExcelConc ==
  /\ now \in Timestamps
  /\ xl_playlist =
       [c \in Calls |-> IF c = 1 THEN PlaylistOf(Str(TxtRoadTrip), Absent)
                        ELSE PlaylistOf(Str(<<"a", ",", "b">>), Absent)]
  /\ xl_tracks \in [Calls -> SeqsUpTo({ExportTrackA, ExportTrackB}, 1)]
  /\ inst \in {f \in [Calls -> Instances] : f[1] = 1}
  /\ wb = [p \in Instances |-> 0]
  /\ books = <<>>
  /\ excel_buffer = [c \in Calls |-> NoBuffer]
  /\ excel_result = [c \in Calls |-> NoResult]
  /\ xpc = [c \in Calls |-> "start"]

InitXC ==
  /\ InitExcelConc /\ CsvIdle
  /\ NormIdle /\ DateIdle /\ ProcIdle /\ SumIdle /\ HandlerIdle

NextExcelConc ==
  \/ \E c \in Calls : XlNewWorkbook(c)
  \/ \E c \in Calls : XlRemoveActive(c)
  \/ \E c \in Calls : XlSummarySheet(c)
  \/ \E c \in Calls : XlTracksSheet(c)
  \/ \E c \in Calls : XlAudioSheet(c)
  \/ \E c \in Calls : XlSave(c)

SpecExcelConc == InitXC /\ [][NextExcelConc]_vars

\* ------------------------------------------------ the export endpoints
InitHandler ==
  /\ request \in ExportRequests
  /\ response = NoResponse
  /\ hpc = "start"
  /\ now \in Timestamps

\* POST /export-csv
ExportCsv ==
  /\ hpc = "start"
  /\ response' = ExportHandler(request, "csv", now)
  /\ hpc' = "done"
  /\ UNCHANGED <<request, now, notHandler>>

\* POST /export-excel
ExportExcel ==
  /\ hpc = "start"
  /\ response' = ExportHandler(request, "excel", now)
  /\ hpc' = "done"
  /\ UNCHANGED <<request, now, notHandler>>

InitH ==
  /\ InitHandler /\ CsvIdle /\ XlIdle /\ ExtractIdle
  /\ NormIdle /\ DateIdle /\ ProcIdle /\ SumIdle

NextHandler == ExportCsv \/ ExportExcel

SpecHandler == InitH /\ [][NextHandler]_vars

\* ------------------------------------------------ the extract endpoint
InitExtract ==
  /\ url_field \in ExtractUrls
  /\ credentials \in BOOLEAN
  /\ api_outcome \in ApiOutcomes
  /\ playlist_url = <<>>
  /\ playlist_id = Null
  /\ extract_response = NoExtractResponse
  /\ epc = "start"

\* The outer except clause, lines 86-89.
ExtractUnexpected ==
  /\ extract_response' = ErrorResponse(500, "An unexpected error occurred")
  /\ epc' = "done"

\* Lines 46-50: data.get('url', '').strip() raises on a url that is not a
\* string; an empty url is answered 400.
ExtractReadUrl ==
  /\ epc = "start"
  /\ LET url == IF url_field = Absent THEN Str(<<>>) ELSE url_field IN
       IF Tag(url) # "str"
       THEN ExtractUnexpected /\ UNCHANGED playlist_url
       ELSE /\ playlist_url' = Strip(Payload(url))
            /\ IF Strip(Payload(url)) = <<>>
               THEN /\ extract_response' =
                         ErrorResponse(400, "Please provide a Spotify playlist URL")
                    /\ epc' = "done"
               ELSE /\ epc' = "id"
                    /\ UNCHANGED extract_response
  /\ UNCHANGED <<url_field, credentials, api_outcome, playlist_id, notExtract>>

\* Lines 53-55.
ExtractPlaylistId ==
  /\ epc = "id"
  /\ playlist_id' = extract_playlist_id(playlist_url)
  /\ IF ~Truthy(extract_playlist_id(playlist_url))
     THEN /\ extract_response' =
               ErrorResponse(400, "Invalid Spotify playlist URL format")
          /\ epc' = "done"
     ELSE /\ epc' = "extractor"
          /\ UNCHANGED extract_response
  /\ UNCHANGED <<url_field, credentials, api_outcome, playlist_url, notExtract>>

\* Line 60: SpotifyExtractor() raises without usable credentials, outside
\* the inner try.
ExtractNewExtractor ==
  /\ epc = "extractor"
  /\ IF ~credentials THEN ExtractUnexpected
     ELSE epc' = "acquire" /\ UNCHANGED extract_response
  /\ UNCHANGED <<url_field, credentials, api_outcome, playlist_url,
                 playlist_id, notExtract>>

\* Lines 62-83: a raise of extract_playlist_data is answered 500; a playlist
\* and a track list that are both non-empty are processed and answered with
\* the success body; otherwise the if is skipped, no except clause runs and
\* control reaches the end of the function.
ExtractAcquire ==
  /\ epc = "acquire"
  /\ extract_response' =
       IF api_outcome.raised
       THEN ErrorResponse(500, "Spotify API extraction failed")
       ELSE IF DOMAIN api_outcome.playlist # {} /\ api_outcome.tracks # <<>>
       THEN SuccessResponse(api_outcome.playlist,
                            ProcessedTracks(api_outcome.tracks))
       ELSE NoneReturned
  /\ epc' = "done"
  /\ UNCHANGED <<url_field, credentials, api_outcome, playlist_url,
                 playlist_id, notExtract>>

InitX ==
  /\ InitExtract /\ ExportHandlerIdle /\ ExportIdle
  /\ NormIdle /\ DateIdle /\ ProcIdle /\ SumIdle

NextExtract ==
  ExtractReadUrl \/ ExtractPlaylistId \/ ExtractNewExtractor \/ ExtractAcquire

SpecExtract == InitX /\ [][NextExtract]_vars

\* ================================================= claims: the normalizer
\* The default of each canonical field in the specification's table.
TableDefault(f) ==
  CASE f = "track_name" -> Str(TxtUnknown)
    [] f = "artists" -> Str(TxtUnknownArtist)
    [] f = "album_name" -> Str(TxtUnknownAlbum)
    [] f = "duration" -> Str(TxtZeroDuration)
    [] f = "duration_ms" -> IntV(0)
    [] f = "date_added" -> Str(TxtUnknown)
    [] f = "release_year" -> Str(TxtUnknown)
    [] f = "popularity" -> IntV(0)
    [] f = "explicit" -> BoolV(FALSE)
    [] f = "streams" -> Str(TxtNA)
    [] f = "track_number" -> IntV(0)
    [] OTHER -> Str(TxtNA)

\* What a real raw value becomes in the canonical record: artist names are
\* joined with ", ", the two real dates both denote 2023-05-12, every other
\* value is kept as it is.
CanonOfReal(f, v) ==
  CASE f = "artists" ->
         (IF Len(Payload(v)) = 1 THEN Str(Payload(Payload(v)[1]))
          ELSE Str(Payload(Payload(v)[1]) \o <<",", " ">>
                     \o Payload(Payload(v)[2])))
    [] f = "date_added" -> Str(TxtYmdDate)
    [] OTHER -> v

\* C1: for every raw record (each field absent, None or real)
\* _standardize_track returns a record holding all 23 canonical fields, none
\* of them None.
C1_AllFieldsPopulated ==
  pc \in {"standardized", "faulted"} =>
    /\ pc = "standardized"
    /\ DOMAIN canon = CanonFields
    /\ \A f \in CanonFields : canon[f] # Null

\* C2: a field whose raw key is absent gets exactly its table default, and a
\* field whose raw key holds a real value keeps that value (joined artists,
\* normalized date) instead of a default.
C2_DefaultsFillMissing ==
  pc = "standardized" =>
    \A f \in CanonFields :
      /\ RawKeyOf(f) \notin DOMAIN track => canon[f] = TableDefault(f)
      /\ (RawKeyOf(f) \in DOMAIN track
            /\ track[RawKeyOf(f)] \in RealValues(RawKeyOf(f)))
           => canon[f] = CanonOfReal(f, track[RawKeyOf(f)])

\* C2 witness: a record with missing fields and real fields was normalized.
C2_Witness ==
  /\ pc = "standardized"
  /\ "artists" \notin DOMAIN track
  /\ "added_at" \notin DOMAIN track
  /\ "name" \in DOMAIN track
  /\ canon["artists"] = Str(TxtUnknownArtist)
  /\ canon["track_name"] = Str(TxtA)

\* C3: normalization is idempotent: handing a canonical record back to
\* _standardize_track yields a record equal to it in all 23 fields.
C3_Idempotent ==
  pc \in {"restandardized", "refaulted"} =>
    pc = "restandardized" /\ canon2 = canon

\* C4: a raw track with duration_ms and no pre-formatted duration gets the
\* m:ss rendering of duration_ms as its duration text (200000 ms is "3:20").
C4_DurationTextFromMs ==
  (/\ pc = "standardized"
   /\ "duration_formatted" \notin DOMAIN track
   /\ "duration_ms" \in DOMAIN track
   /\ Tag(track["duration_ms"]) = "int")
    => /\ canon["duration"] = Str(_format_duration(canon["duration_ms"]))
       /\ (canon["duration_ms"] = IntV(200000)
             => canon["duration"] = Str(<<"3", ":", "2", "0">>))

\* C5: in the record returned by _standardize_track every audio feature is
\* "N/A" for a raw None or "N/A", the number rounded to 3 decimals for a raw
\* number, and the text of the raw value otherwise.
C5_NormalizerFormatsAudio ==
  pc = "standardized" =>
    \A f \in AudioFeatures :
      /\ canon[f] = _format_audio_feature(Get1(track, f))
      /\ (Get1(track, f) = FloatV(123456) => canon[f] = FloatV(123000))
      /\ (Get1(track, f) = Null => canon[f] = Str(TxtNA))

\* ================================================= claims: _format_date
YmdText(y, m, d) ==
  IntToText(y) \o <<"-">> \o PadLeft(IntToText(m), 2) \o <<"-">>
    \o PadLeft(IntToText(d), 2)

\* What the rules of the specification give for an input, from the way the
\* input was put together.
ExpectedDate(in) ==
  CASE in.kind = "ymd" ->
         (IF ValidYMD(in.y, in.a.n, in.b.n)
          THEN Str(YmdText(in.y, in.a.n, in.b.n)) ELSE DateStringOf(in))
    [] in.kind = "slash" ->
         (IF ValidYMD(in.y, in.a.n, in.b.n)
          THEN Str(YmdText(in.y, in.a.n, in.b.n))
          ELSE IF ValidYMD(in.y, in.b.n, in.a.n)
          THEN Str(YmdText(in.y, in.b.n, in.a.n)) ELSE DateStringOf(in))
    [] in.kind = "iso" ->
         (IF /\ in.a.w = 2 /\ in.b.w = 2 /\ in.clock.valid
             /\ ValidYMD(in.y, in.a.n, in.b.n)
          THEN Str(YmdText(in.y, in.a.n, in.b.n)) ELSE DateStringOf(in))
    [] OTHER ->
         (IF in.other \in {Str(<<>>), Null, IntV(0), ListV(<<>>)}
          THEN Str(TxtUnknown) ELSE in.other)

\* C6: _format_date never raises; empty input gives "Unknown"; an input with
\* a "T" that is an ISO timestamp gives its date; otherwise YYYY-MM-DD,
\* MM/DD/YYYY, DD/MM/YYYY are tried in that order ("05/12/2023" gives
\* "2023-05-12"); an input no rule parses is returned unchanged.
C6_FormatDateRules ==
  dpc # "start" =>
    /\ dpc = "returned"
    /\ date_result = ExpectedDate(date_in)
    /\ (date_string = Str(TxtSlashDate) => date_result = Str(TxtYmdDate))
    /\ (date_string = Str(TxtIsoDate) => date_result = Str(TxtYmdDate))
    /\ (date_string = Str(TxtNotADate) => date_result = Str(TxtNotADate))
    /\ (date_string = Str(<<>>) => date_result = Str(TxtUnknown))

\* C6 witness: "13/5/2023", which parses only day-first, was formatted as
\* 2023-05-13.
C6_Witness ==
  /\ dpc = "returned"
  /\ date_in.kind = "slash" /\ date_in.y = 2023
  /\ date_in.a = [n |-> 13, w |-> 2] /\ date_in.b = [n |-> 5, w |-> 1]
  /\ date_result = Str(<<"2", "0", "2", "3", "-", "0", "5", "-", "1", "3">>)

\* ================================================ claims: process_tracks
\* The canonical records of the tracks of seq that _standardize_track
\* accepts, in the order of seq.
RECURSIVE CanonOfAccepted(_)
CanonOfAccepted(seq) ==
  IF Len(seq) = 0 THEN <<>>
  ELSE (IF _standardize_track(Head(seq)).raised THEN <<>>
        ELSE <<_standardize_track(Head(seq)).value>>)
         \o CanonOfAccepted(Tail(seq))

\* C7: process_tracks never raises; it returns exactly the canonical records
\* of the tracks whose normalization does not fault, in input order, so a
\* fault on one track drops no later track.
C7_SkipsFaultyTracks ==
  /\ ppc # "raised"
  /\ ppc = "loop" =>
       processed_tracks = CanonOfAccepted(SubSeq(tracks_data, 1, idx - 1))
  /\ ppc = "returned" =>
       /\ processed_tracks = CanonOfAccepted(tracks_data)
       /\ Len(processed_tracks) <= Len(tracks_data)

\* C7 witness: a sequence whose first track faults and whose later tracks
\* do not was processed to the end.
C7_Witness ==
  /\ ppc = "returned"
  /\ Len(tracks_data) >= 3
  /\ _standardize_track(tracks_data[1]).raised
  /\ ~_standardize_track(tracks_data[2]).raised
  /\ ~_standardize_track(tracks_data[3]).raised
  /\ Len(processed_tracks) = Len(tracks_data) - 1

\* ========================================= claims: the aggregate calculator
\* duration_ms of a track, absent counting as 0.
MsOf(t) == IF "duration_ms" \in DOMAIN t THEN Payload(t["duration_ms"]) ELSE 0

PopularityOf(t) ==
  IF "popularity" \in DOMAIN t THEN Payload(t["popularity"]) ELSE 0

RECURSIVE TotalMs(_)
TotalMs(seq) ==
  IF Len(seq) = 0 THEN 0
  ELSE MsOf(seq[Len(seq)]) + TotalMs(SubSeq(seq, 1, Len(seq) - 1))

RECURSIVE TotalPopularity(_)
TotalPopularity(seq) ==
  IF Len(seq) = 0 THEN 0
  ELSE PopularityOf(seq[Len(seq)])
         + TotalPopularity(SubSeq(seq, 1, Len(seq) - 1))

\* The number written in a part such as "15m", and its unit letter.
PartUnit(p) == p[Len(p)]

PartDigits(p) == SubSeq(p, 1, Len(p) - 1)

PartOK(p) ==
  /\ Len(p) >= 2
  /\ AllDigits(PartDigits(p))
  /\ IntToText(TextToInt(PartDigits(p))) = PartDigits(p)

PartValue(p) == TextToInt(PartDigits(p))

\* C8: calculate_total_duration sums duration_ms (absent is 0), truncates to
\* whole seconds and writes "{h}h {m}m {s}s" when hours > 0, else "{m}m {s}s"
\* when minutes > 0, else "{s}s"; m and s are in 0..59 under a larger unit and
\* h*3600 + m*60 + s is the total of whole seconds.
C8_TotalDurationFormat ==
  spc = "duration" =>
    LET total == TotalMs(sum_tracks) \div 1000
        parts == Split(total_duration, " ")
        n == Len(parts) IN
    /\ n \in 1..3
    /\ \A i \in 1..n : PartOK(parts[i])
    /\ [i \in 1..n |-> PartUnit(parts[i])] = SubSeq(<<"h", "m", "s">>, 4 - n, 3)
    /\ n = 3 =>
         /\ PartValue(parts[1]) > 0
         /\ PartValue(parts[2]) \in 0..59 /\ PartValue(parts[3]) \in 0..59
         /\ PartValue(parts[1]) * 3600 + PartValue(parts[2]) * 60
              + PartValue(parts[3]) = total
    /\ n = 2 =>
         /\ PartValue(parts[1]) \in 1..59 /\ PartValue(parts[2]) \in 0..59
         /\ PartValue(parts[1]) * 60 + PartValue(parts[2]) = total
    /\ n = 1 => PartValue(parts[1]) = total /\ total < 60
    /\ (TotalMs(sum_tracks) = 0 => total_duration = <<"0", "s">>)
    /\ (TotalMs(sum_tracks) = 65000
          => total_duration = <<"1", "m", " ", "5", "s">>)
    /\ (TotalMs(sum_tracks) = 3665000
          => total_duration = <<"1", "h", " ", "1", "m", " ", "5", "s">>)

\* C8 witness: a total of an hour or more was formatted with all three units.
C8_Witness ==
  /\ spc = "duration"
  /\ Len(sum_tracks) = 2
  /\ TotalMs(sum_tracks) = 3665000 + 59999
  /\ total_duration = <<"1", "h", " ", "2", "m", " ", "4", "s">>

\* C9: avg_popularity is the arithmetic mean of the popularity values (absent
\* is 0) of a non-empty sequence, and exactly 0, with no division fault, for
\* the empty sequence.
C9_AveragePopularity ==
  /\ (spc = "summary_raised" => Len(sum_tracks) > 0)
  /\ spc = "summarized" =>
       IF Len(sum_tracks) = 0
       THEN summary.avg_popularity.num = 0
       ELSE /\ summary.avg_popularity.den > 0
            /\ summary.avg_popularity.num * Len(sum_tracks)
                 = TotalPopularity(sum_tracks) * summary.avg_popularity.den

\* C9 witness: the two tracks of the end-to-end scenario average 65.
C9_Witness ==
  /\ spc = "summarized"
  /\ Len(sum_tracks) = 2
  /\ TotalPopularity(sum_tracks) = 130
  /\ summary.avg_popularity.num = 65 * summary.avg_popularity.den

\* A release year is known when it is neither None nor the default "Unknown".
ReleaseYearKnown(t) ==
  /\ "release_year" \in DOMAIN t
  /\ t["release_year"] \notin {Null, Str(TxtUnknown)}

\* C10: tracks_with_release_year is the number of tracks whose release year
\* is known: a track whose release_year is "Unknown" or None is not counted.
C10_ReleaseYearCount ==
  spc = "summarized" =>
    summary.tracks_with_release_year
      = Cardinality({i \in 1..Len(sum_tracks) : ReleaseYearKnown(sum_tracks[i])})

\* =================================================== claims: create_csv
\* A reader of delimited text under the standard quoting rule, as csv.reader
\* reads it: a field that starts with a quote runs to the closing quote, a
\* doubled quote inside it is one quote, and the delimiter and the
\* newline are data inside it; anywhere else a quote is data.  The reader is
\* in one of the modes SF (start of a field), IF (in a plain field), IQ (in a
\* quoted field), QQ (a quote seen in a quoted field), EAT (after a carriage
\* return); a character adds to the field, ends the field or ends the row.
CharStep(m, c) ==
  CASE m \in {"SF", "IF", "QQ"} /\ c = "," -> [mode |-> "SF", out |-> "field"]
    [] m \in {"SF", "IF", "QQ"} /\ c = "\n" -> [mode |-> "SF", out |-> "row"]
    [] m \in {"SF", "IF", "QQ"} /\ c = "\r" -> [mode |-> "EAT", out |-> "row"]
    [] m = "SF" /\ c = "\"" -> [mode |-> "IQ", out |-> "none"]
    [] m = "IQ" /\ c = "\"" -> [mode |-> "QQ", out |-> "none"]
    [] m = "QQ" /\ c = "\"" -> [mode |-> "IQ", out |-> "char"]
    [] m = "IQ" -> [mode |-> "IQ", out |-> "char"]
    [] m = "EAT" /\ c = "\n" -> [mode |-> "SF", out |-> "none"]
    [] m = "EAT" /\ c = "\r" -> [mode |-> "EAT", out |-> "none"]
    [] m \in {"EAT", "ERR"} -> [mode |-> "ERR", out |-> "none"]
    [] OTHER -> [mode |-> "IF", out |-> "char"]

\* What a stretch of text reads as: rows of fields, the first field
\* continuing the field open before the stretch and the last one still open.
Piece(out, c) ==
  CASE out = "char" -> << << <<c>> >> >>
    [] out = "field" -> << << <<>>, <<>> >> >>
    [] out = "row" -> << << <<>> >>, << <<>> >> >>
    [] OTHER -> << << <<>> >> >>

Front(s) == SubSeq(s, 1, Len(s) - 1)

Last(s) == s[Len(s)]

Merge(a, b) ==
  Front(a)
    \o << Front(Last(a)) \o << Last(Last(a)) \o Head(Head(b)) >>
            \o Tail(Head(b)) >>
    \o Tail(b)

\* The stretch s[lo..hi] read from mode m, by halves.  The left half is
\* bound as a value before the right half is read from the mode it ends in.
RECURSIVE Scan(_, _, _, _)
Scan(s, lo, hi, m) ==
  IF lo = hi
  THEN [mode |-> CharStep(m, s[lo]).mode,
        rows |-> Piece(CharStep(m, s[lo]).out, s[lo])]
  ELSE CHOOSE both \in
         UNION {{[mode |-> r.mode, rows |-> Merge(l.rows, r.rows)] :
                   r \in {Scan(s, (lo + hi) \div 2 + 1, hi, l.mode)}} :
                  l \in {Scan(s, lo, (lo + hi) \div 2, m)}} : TRUE

\* The rows of a document; a blank line reads as a row of one empty field.
ParseCsv(s) ==
  IF Len(s) = 0 THEN <<>>
  ELSE LET r == Scan(s, 1, Len(s), "SF") IN
    IF r.mode \in {"SF", "EAT"} /\ Last(r.rows) = << <<>> >>
    THEN Front(r.rows) ELSE r.rows

\* C11: for every playlist name and description, with a comma, a quote or a
\* newline in them too, the metadata block written by create_csv reads as the
\* label row, 7 rows of exactly two columns (key, value) and the blank line,
\* and the values read back for Name and Description are the playlist's name
\* and description verbatim.
C11_MetadataRoundTrip ==
  cpc = "header" =>
    LET rows == ParseCsv(output.data)
        p == Payload(csv_playlist) IN
    /\ Len(rows) = 9
    /\ \A i \in 1..7 : Len(rows[i + 1]) = 2 /\ rows[i + 1][1] = MetadataKeys[i]
    /\ "name" \in DOMAIN p => rows[2][2] = Payload(p["name"])
    /\ "description" \in DOMAIN p => rows[3][2] = Payload(p["description"])

\* C12: for every playlist and every sequence of N tracks the document
\* create_csv returns reads as 1 metadata label row, 7 metadata rows, 1
\* blank line, 1 tracks label row, 1 header row of 22 columns and N data rows
\* of 22 fields each, whatever the fields hold.
C12_DocumentShape ==
  cpc = "returned" =>
    LET rows == ParseCsv(csv_result.content)
        n == Len(csv_tracks) IN
    /\ Len(rows) = n + 11
    /\ rows[1] = <<TxtPlaylistMetadata>>
    /\ \A i \in 1..7 : rows[i + 1][1] = MetadataKeys[i]
    /\ rows[9] = << <<>> >>
    /\ rows[10] = <<TxtTracksData>>
    /\ rows[11] = Headers /\ Len(rows[11]) = 22
    /\ \A k \in 1..n : Len(rows[11 + k]) = 22

\* The text csv.writer gives a value, before quoting.
WrittenText(v) == IF v = Null THEN <<>> ELSE PyStr(v)

\* The data rows of a returned document: what follows the metadata block and
\* the header row.
DataRows ==
  LET skip == Len(MetadataText(csv_playlist, csv_tracks, now).value)
                + Len(HeaderText) IN
  ParseCsv(SubSeq(csv_result.content, skip + 1, Len(csv_result.content)))

\* C13: in both exporters the k-th data row (k from 1) is built from the k-th
\* track of the input and its first column holds k whatever track_number the
\* record carries: in the rows of create_csv and in the Track Details rows
\* of create_excel.
C13_ExportPosition ==
  /\ cpc = "returned" =>
       /\ Len(DataRows) = Len(csv_tracks)
       /\ \A k \in 1..Len(csv_tracks) :
            /\ DataRows[k][1] = IntToText(k)
            /\ \A j \in 1..7 :
                 DataRows[k][j + 1] =
                   WrittenText(Get(Payload(csv_tracks[k]), PlainOrder[j],
                                   TableDefault(PlainOrder[j])))
  /\ xpc[1] = "returned" =>
       LET rows == excel_result[1].content[2].rows IN
       /\ Len(rows) = Len(xl_tracks[1]) + 1
       /\ \A k \in 1..Len(xl_tracks[1]) :
            /\ rows[k + 1][1] = IntV(k)
            /\ \A j \in 1..7 :
                 rows[k + 1][j + 1] =
                   Get(Payload(xl_tracks[1][k]), PlainOrder[j],
                       TableDefault(PlainOrder[j]))

\* C13 witness: both exporters returned for two tracks, the second of them
\* carrying track_number 7, and both numbered it 2.
C13_Witness ==
  /\ cpc = "returned" /\ xpc[1] = "returned"
  /\ Len(csv_tracks) = 2
  /\ csv_tracks[1] # csv_tracks[2]
  /\ Get1(Payload(csv_tracks[2]), "track_number") = IntV(7)
  /\ DataRows[2][1] = <<"2">>
  /\ excel_result[1].content[2].rows[3][1] = IntV(2)

\* C14: a call of create_csv or create_excel in which a step faults ends
\* with the one wrapped failure ("Failed to create CSV", "Failed to create
\* Excel file") and no content; content is returned only by a call in which
\* every step completed, and it is then the whole document.
C14_WrappedFailure ==
  /\ cpc = "raised" => csv_result = Failure("Failed to create CSV")
  /\ csv_result.kind = "content" => cpc = "returned"
  /\ cpc = "returned" =>
       /\ ~create_csv(csv_playlist, csv_tracks, now).raised
       /\ csv_result.kind = "content"
       /\ csv_result.content = create_csv(csv_playlist, csv_tracks, now).value
  /\ cpc \in {"metadata", "header", "rows"} => csv_result = NoResult
  /\ xpc[1] = "raised" =>
       excel_result[1] = Failure("Failed to create Excel file")
  /\ excel_result[1].kind = "content" => xpc[1] = "returned"
  /\ xpc[1] = "returned" =>
       /\ ~create_excel(xl_playlist[1], xl_tracks[1], now).raised
       /\ excel_result[1].kind = "content"
       /\ excel_result[1].content
            = create_excel(xl_playlist[1], xl_tracks[1], now).value
  /\ xpc[1] \in {"remove", "summary", "tracks", "audio", "save"} =>
       excel_result[1] = NoResult

\* C14 witness: create_csv faulted at its second track, after the first row
\* was written, and create_excel faulted on the same input; both hold the
\* wrapped failure and no content.
C14_Witness ==
  /\ cpc = "raised" /\ xpc[1] = "raised"
  /\ csv_i = 2
  /\ Len(output.data) > Len(MetadataText(csv_playlist, csv_tracks, now).value)
                          + Len(HeaderText)
  /\ csv_result.content = <<>> /\ csv_result.kind = "error"
  /\ excel_result[1].kind = "error"

\* C15: an export request whose track list is empty or missing is answered
\* by export_csv and export_excel with status 400 and 'No tracks data to
\* export', without create_csv or create_excel being called; a fault raised
\* in rendering is answered with status 500 and another message.
C15_EmptyRejected ==
  hpc = "done" =>
    LET empty == \/ "tracks" \notin DOMAIN request
                 \/ request["tracks"] \in {Null, ListV(<<>>)} IN
    /\ empty =>
         /\ response.status = 400
         /\ response.error = "No tracks data to export"
         /\ ~response.rendered
         /\ response.content = <<>>
    /\ ~empty => response.rendered /\ response.status \in {200, 500}
    /\ response.status = 500 =>
         response.error \in {"Failed to export CSV", "Failed to export Excel"}
    /\ response.status = 200 => response.error = ""

\* C15 witness: a request with a playlist and no tracks key was answered 400.
C15_Witness ==
  /\ hpc = "done"
  /\ DOMAIN request = {"playlist"}
  /\ response.status = 400
  /\ ~response.rendered

\* ================================================= claims: the workbook
SheetNames(book) == [i \in 1..Len(book) |-> book[i].title]

\* C16: the workbook a successful create_excel call returns holds exactly
\* the sheets "Playlist Summary", "Track Details", "Audio Features", in
\* that order, and not the sheet "Sheet" that Workbook() made.
C16_ThreeSheets ==
  xpc[1] = "returned" =>
    /\ excel_result[1].kind = "content"
    /\ SheetNames(excel_result[1].content)
         = << <<"Playlist Summary", 0>>, <<"Track Details", 0>>,
              <<"Audio Features", 0>> >>
    /\ \A i \in 1..Len(excel_result[1].content) :
         excel_result[1].content[i] # DefaultSheet

\* C16 witness: a call on a list of two tracks returned its workbook.
C16_Witness ==
  /\ xpc[1] = "returned"
  /\ Len(xl_tracks[1]) = 2
  /\ Len(excel_result[1].content) = 3

\* A track carries a real value for some audio feature.
HasAnyFeature(t) ==
  \E f \in AudioFeatures :
    f \in DOMAIN Payload(t) /\ Payload(t)[f] \notin {Null, Str(TxtNA)}

\* C17: the Audio Features sheet of a returned workbook holds only the
\* warning title and the note when no track carries a real value for any
\* audio feature, and the 14-column header followed by one data row per
\* track when some track does.
C17_AudioFeaturesSheet ==
  xpc[1] = "returned" =>
    LET rows == excel_result[1].content[3].rows IN
    IF \E i \in 1..Len(xl_tracks[1]) : HasAnyFeature(xl_tracks[1][i])
    THEN /\ Len(rows) = Len(xl_tracks[1]) + 1
         /\ rows[1] = FeatureHeaders
         /\ Len(rows[1]) = 14
    ELSE /\ Len(rows) = 2
         /\ rows[1] = <<Label("Audio Features Not Available")>>

\* ================================================= claims: the buffers
\* C20: when create_csv or create_excel has ended, by returning or by
\* raising, the buffer that call opened is not open any more.
C20_BufferReleased ==
  /\ cpc \in {"returned", "raised"} => output.state # "open"
  /\ \A c \in Calls :
       xpc[c] \in {"returned", "raised"} => excel_buffer[c].state # "open"

\* ================================================= claims: the inputs
\* C18: no step of create_csv, create_excel, get_data_summary,
\* calculate_total_duration or process_tracks changes the playlist record
\* or a track record it was handed: keys, values and order stay as passed.
C18_InputsUnchanged ==
  [][/\ csv_playlist' = csv_playlist
     /\ csv_tracks' = csv_tracks
     /\ xl_playlist' = xl_playlist
     /\ xl_tracks' = xl_tracks
     /\ tracks_data' = tracks_data
     /\ playlist_data' = playlist_data
     /\ sum_tracks' = sum_tracks]_vars

\* C18 witness: every stage has run to its end on inputs that hold records.
C18_Witness ==
  /\ cpc = "returned"
  /\ xpc[1] = "returned"
  /\ ppc = "returned"
  /\ spc \in {"duration", "summarized"}
  /\ Len(csv_tracks) > 0
  /\ Len(sum_tracks) > 0
  /\ Len(processed_tracks) > 0

\* ================================================= claims: concurrency
\* C19: of two create_excel calls running at one time, also on the same
\* ExcelProcessor, each returns the workbook of the three sheets built from
\* its own playlist and tracks, with no sheet of the other call, and fails
\* only when it would fail alone.
C19_NoSharedState ==
  \A c \in Calls :
    LET alone == create_excel(xl_playlist[c], xl_tracks[c], now) IN
    /\ xpc[c] = "returned" =>
         ~alone.raised /\ excel_result[c].content = alone.value
    /\ xpc[c] = "raised" => alone.raised

\* ================================================= claims: the filename
Whitespace == {" ", "\t", "\n"}

\* C21: the filename export_csv and export_excel send is the playlist name
\* with every whitespace character (space, tab, newline) replaced by an
\* underscore, between "spotify_" and "_tracks.csv" or "_tracks.xlsx", and
\* holds no whitespace.
C21_FilenameNoWhitespace ==
  (hpc = "done" /\ response.status = 200) =>
    LET playlist == Get(request, "playlist", DictV(EmptyTrack))
        name == Payload(Get(Payload(playlist), "name", Str(TxtPlaylist)))
        clean == [i \in 1..Len(name) |->
                    IF name[i] \in Whitespace THEN "_" ELSE name[i]] IN
    /\ response.filename \in {TxtSpotify_ \o clean \o TxtTracksCsv,
                              TxtSpotify_ \o clean \o TxtTracksXlsx}
    /\ \A i \in 1..Len(response.filename) :
         response.filename[i] \notin Whitespace

\* ================================================= claims: the two counts
\* The Playlist Summary sheet _create_summary_sheet writes for the records
\* the aggregate calculator was handed.
SummarySheetOf(playlist, tracks) ==
  SummaryRows(DictV(playlist), [i \in 1..Len(tracks) |-> DictV(tracks[i])],
              now)

SheetValue(rows, label) ==
  (CHOOSE i \in 1..Len(rows) : rows[i][1] = Label(label))

\* C22: for canonical tracks, get_data_summary's tracks_with_audio_features
\* equals the "Tracks with Audio Features" value of the Playlist Summary
\* sheet, and both are the number of tracks with a real (non-null,
\* non-"N/A") audio-feature value.
C22_AudioCountsAgree ==
  (/\ spc = "summarized"
   /\ \A i \in 1..Len(sum_tracks) : AudioFeatures \subseteq DOMAIN sum_tracks[i]
   /\ ~SummarySheetOf(playlist_data, sum_tracks).raised) =>
    LET rows == SummarySheetOf(playlist_data, sum_tracks).value
        onSheet == rows[SheetValue(rows, "Tracks with Audio Features")][2]
        real == Cardinality({i \in 1..Len(sum_tracks) :
                               HasAnyFeature(DictV(sum_tracks[i]))}) IN
    /\ IntV(summary.tracks_with_audio_features) = onSheet
    /\ summary.tracks_with_audio_features = real

\* ================================================= claims: the extract handler
\* C23: every path of extract_playlist ends by returning the success body
\* or an error body with status 400 or 500, whatever the acquisition step
\* does; the handler never reaches its end without a response.
C23_AlwaysResponds ==
  epc = "done" =>
    \/ extract_response.kind = "success" /\ extract_response.status = 200
    \/ extract_response.kind = "error" /\ extract_response.status \in {400, 500}
====
